---- MODULE Spec2Model ----
(***************************************************************************)
(* Model of the assistant backend's action protocol:                       *)
(*   - the directive extractor (parse_action, strip_action_line,           *)
(*     _normalize_llm_action_json) of services/ollama_client.py,           *)
(*   - the streaming session (stream_ollama_chat driven by                 *)
(*     ChatStreamView.post.event_stream of views.py).                      *)
(*                                                                         *)
(* Texts are Python str values, written as TLA+ strings; TLC's Len, SubSeq *)
(* and \o act on them character by character.  Indices are 0-based as in   *)
(* the source (At, Slice), so that the source's index arithmetic           *)
(* (action_start + 7, json_end = i + 1) is kept as written.                *)
(***************************************************************************)
EXTENDS Integers, Sequences, FiniteSets, TLC

VARIABLES
    \* the extractor, called on one text
    ex_text,           \* the text handed to parse_action and strip_action_line
    ex_gen,            \* the parts ex_text was put together from
    ex_action,         \* what parse_action returned
    ex_clean,          \* what strip_action_line returned
    ex_pc,             \* "input" before the two calls, "done" after them
    \* one streaming session: stream_ollama_chat consumed by event_stream
    st_pc,             \* where the session is
    upstream,          \* the lines read from the model's response so far
    accumulated_text,  \* stream_ollama_chat: the chunks received, concatenated
    pending_action,    \* stream_ollama_chat: action, parsed at the done flag
    full_text,         \* event_stream: the clean text of the done event
    raw_text,          \* event_stream: the raw text of the done event
    action_detected,   \* event_stream: the action of the action event
    out,               \* the SSE events written to the client, in order
    model_calls,       \* the requests made to the model
    conv_mode,         \* the request: an existing conversation, none, or an id not found
    saved,             \* the assistant message stored at the end of the turn
    st_fault           \* the failure injected into the session, "none" if none

VARIABLES
    \* one turn of the non-streaming chat path: ChatView.post and handle_user_message
    ch_pc,             \* where the turn is
    ch_raw,            \* handle_user_message: raw_response, the first response
    ch_action,         \* the action of the turn (handle_user_message, then the view)
    ch_reply,          \* clean_response, the reply of the turn
    ch_used_search,    \* handle_user_message: used_search
    ch_calls,          \* the calls of call_ollama made in the turn
    ch_dispatched,     \* the tools handed to dispatch_tool, in order
    ch_action_result,  \* action_result: whether dispatch_tool reported success
    ch_final_raw,      \* final_raw, the second response
    ch_status          \* the HTTP status of the response: "ok" or "error"

VARIABLES
    \* one call of dispatch_tool
    dt_pc,             \* "ready" before the call, "done" after it
    dt_tool,           \* tool_name
    dt_args,           \* args, the value under "args" of the directive
    dt_storage,        \* the database: "ok", or "error" when it raises on use
    dt_remote,         \* the remote service (Home Assistant, Terminal API): "ok" or "error"
    dt_result          \* what the call did: a result dict, or an exception raised

VARIABLES
    \* the calls of search_web of one process, one after the other
    sw_pc,             \* "idle", "attempt" (in the retry loop), "fallback", "returned"
    sw_query,          \* query
    sw_max_results,    \* max_results
    sw_retries,        \* retries
    sw_attempt,        \* attempt, the loop variable
    sw_cache,          \* _SEARCH_CACHE: (query, max_results) -> (ts, results)
    sw_now,            \* time.time(), in seconds
    sw_ret,            \* the list the call returned
    sw_source,         \* where the returned list came from: "cache", "primary", "fallback", "none"
    sw_trace,          \* what the call did, in order: "primary", "sleep", "fallback"
    sw_outcomes,       \* how each primary attempt of the call ended
    sw_calls,          \* the number of calls made so far
    sw_served,         \* history: (query, max_results) -> the last list the primary provider gave for it, and when
    sw_prior,          \* history: what sw_served held for the key of the call when the call began, and its age then
    sw_ranked          \* history: what the provider that gave the results of the call answered:
                       \* the body of the primary provider, or the items of the fallback provider

VARIABLES
    \* the calls of get_relevant_memories_cached of one process, one after the other
    mc_cache,          \* the Django cache: key -> (expires, value)
    mc_now,            \* the clock of the cache, in seconds
    mc_rows,           \* the Memory rows in the database, in order of creation
    mc_user,           \* user of the last call
    mc_message,        \* user_message of the last call
    mc_ret,            \* the list the last call returned
    mc_log,            \* what the last call did, in order: "recent", "get", "search", "set"
    mc_calls,          \* the number of calls made so far
    mc_failed,         \* history: key -> when the loader last failed for it, while no later search succeeded for it
    mc_prior           \* history: the age of the failure mc_failed held for the key of the call when it began

VARIABLES
    \* the calls of the cached getters of the static and the per-user tier, one
    \* after the other, on the cache mc_cache with the clock mc_now
    uc_op,             \* the last call: "off", "none", "base", "context", "invalidate"
    uc_user,           \* its user (its user_id for "invalidate")
    uc_ret,            \* what it returned, or the exception it raised
    uc_log,            \* what it did, in order: "get", "build", "set", "delete"
    uc_calls,          \* the number of calls made so far
    uc_written,        \* history: user id -> the context last written for it and when, unless invalidated since
    uc_prior,          \* history: what uc_written held for the user of the call when it began, and its age then
    uc_built,          \* history: the index in Worlds of what the build of the last call found, 0 without a build
    uc_invalidated,    \* history: user id invalidated and not fetched since -> what the cache held for it
    uc_refetch         \* history: when the last call is the first fetch of its user after an
                       \* invalidation, what the cache held for the user when it was invalidated

VARIABLES
    \* two threads of one process in search_web for the same (query, max_results),
    \* interleaved at the statements of _get_from_cache
    rc_cache,          \* _SEARCH_CACHE, shared by the threads
    rc_now,            \* time.time()
    rc_pc,             \* thread -> where it is: "idle", "read", "check", "pop", "fetch", "returned"
    rc_entry,          \* thread -> the entry its _get_from_cache read
    rc_ret,            \* thread -> the list its call returned
    rc_calls,          \* thread -> the number of calls it has begun
    rc_evicted         \* history: the age of the entry the last pop removed, and the threads that popped and wrote it

VARIABLES
    \* one run of the task perform_web_search_and_respond
    tk_pc,             \* "start", "search", "answer", "dispatch", "publish", "returned", "raised"
    tk_search_results, \* the list search_web returned
    tk_response_text,  \* the model's response to the search context
    tk_action,         \* parse_action(response_text)
    tk_clean_response, \* the text that is spoken, published and returned
    tk_action_result,  \* what dispatch_tool returned, None when nothing was dispatched
    tk_published,      \* the messages handed to publish_to_user, in order
    tk_ret             \* the dictionary the task returned, None while it runs or when it raised

VARIABLES
    \* one voice connection: the handlers of VoiceConsumer, interleaved at their awaits
    vc_is_active,      \* self.is_active
    vc_processing,     \* self.processing
    vc_audio_chunks,   \* self.audio_chunks, each chunk by its length in bytes
    vc_pipes,          \* the calls of process_accumulated_audio that are running: number -> where it waits
    vc_started,        \* the number of calls that went past the guard of process_accumulated_audio
    vc_received,       \* the number of audio chunks received
    vc_sent,           \* the last event sent to the client
    vc_last,           \* history: what became of the last chunk: "inactive", "dropped", "accepted", "processed"
    vc_dropped,        \* history: a chunk was dropped while a pipeline was running
    vc_ended           \* history: the exit the last finished pipeline took

(***************************************************************************)
(* Python str primitives                                                   *)
(***************************************************************************)

\* s[i]
At(s, i) == SubSeq(s, i + 1, i + 1)

\* s[a:b], clamped to the string as Python's slices are
Slice(s, a, b) ==
    LET hi == IF b > Len(s) THEN Len(s) ELSE b
    IN  IF a >= hi THEN "" ELSE SubSeq(s, a + 1, hi)

\* s[a:]
SliceFrom(s, a) == Slice(s, a, Len(s))

LowerChars == "abcdefghijklmnopqrstuvwxyzçã"
UpperChars == "ABCDEFGHIJKLMNOPQRSTUVWXYZÇÃ"

\* str.upper() of one character; the sharp s has a two-character upper case
UpperChar(c) ==
    IF c = "ß" THEN "SS"
    ELSE LET I == {i \in 0..(Len(LowerChars) - 1) : At(LowerChars, i) = c}
         IN  IF I = {} THEN c ELSE At(UpperChars, CHOOSE i \in I : TRUE)

\* str.upper(): character by character (the string is halved so that the
\* evaluation stays shallow)
RECURSIVE upper(_)
upper(s) ==
    IF s = "" THEN ""
    ELSE IF Len(s) = 1 THEN UpperChar(s)
    ELSE upper(Slice(s, 0, Len(s) \div 2)) \o upper(SliceFrom(s, Len(s) \div 2))

\* the characters str.strip() removes
Whitespace == {" ", "\n", "\t", "\r", "\f"}

\* the indices of the characters of s that are not whitespace
Inked(s) == {i \in 0..(Len(s) - 1) : At(s, i) \notin Whitespace}

lstrip(s) ==
    LET inked == Inked(s)
    IN  IF inked = {} THEN ""
        ELSE SliceFrom(s, CHOOSE i \in inked : \A j \in inked : i <= j)

rstrip(s) ==
    LET inked == Inked(s)
    IN  IF inked = {} THEN ""
        ELSE Slice(s, 0, (CHOOSE i \in inked : \A j \in inked : i >= j) + 1)

strip(s) == rstrip(lstrip(s))

startswith(s, p) == Slice(s, 0, Len(p)) = p

\* s.find(sub, i): the first index >= i at which sub occurs, -1 if none
find(s, sub, i) ==
    LET found == {j \in i..(Len(s) - Len(sub)) : Slice(s, j, j + Len(sub)) = sub}
    IN  IF found = {} THEN -1 ELSE CHOOSE j \in found : \A k \in found : j <= k

\* sub in s
contains(s, sub) == find(s, sub, 0) # -1

\* s.index(sub), used by the source only after "sub in s"
index(s, sub) == find(s, sub, 0)

\* s.split("\n")
RECURSIVE split_lines(_)
split_lines(s) ==
    LET p == find(s, "\n", 0)
    IN  IF p = -1 THEN <<s>> ELSE <<Slice(s, 0, p)>> \o split_lines(SliceFrom(s, p + 1))

\* "\n".join(lines)
RECURSIVE join_lines(_)
join_lines(lines) ==
    IF lines = <<>> THEN ""
    ELSE IF Len(lines) = 1 THEN lines[1]
    ELSE lines[1] \o "\n" \o join_lines(Tail(lines))

(***************************************************************************)
(* JSON values and json.loads                                              *)
(*                                                                         *)
(* A parsed value is a tagged record: a string, an object (a function from *)
(* keys to values, so that two dicts are equal whatever the key order),    *)
(* an array, or a literal.  None is Python's None.  The texts of this      *)
(* model hold no digits and no \b or \u escapes, so numbers and those two  *)
(* escapes are not modelled.                                               *)
(***************************************************************************)

None == [k |-> "none", v |-> ""]
JStr(s) == [k |-> "str", v |-> s]
JObj(f) == [k |-> "obj", v |-> f]
JArr(q) == [k |-> "arr", v |-> q]
JLit(w) == [k |-> "lit", v |-> w]

\* a failed decode: json.JSONDecodeError
JSONDecodeError == [ok |-> FALSE, val |-> None, end |-> 0]
Decoded(val, end) == [ok |-> TRUE, val |-> val, end |-> end]

JsonWs == {" ", "\t", "\n", "\r"}
ControlChars == {"\n", "\t", "\r", "\f"}
BACKSLASH ==
    [c \in {"\"", "\\", "/", "n", "r", "t", "f"} |->
        CASE c = "n" -> "\n" [] c = "r" -> "\r" [] c = "t" -> "\t" [] c = "f" -> "\f"
          [] OTHER -> c]
Literals == <<"null", "true", "false", "NaN", "Infinity", "-Infinity">>

RECURSIVE skip_ws(_, _)
skip_ws(s, i) == IF i < Len(s) /\ At(s, i) \in JsonWs THEN skip_ws(s, i + 1) ELSE i

\* json.decoder.py_scanstring, strict: s[end - 1] is the opening quote
RECURSIVE scanstring(_, _, _)
scanstring(s, end, acc) ==
    IF end >= Len(s) THEN JSONDecodeError
    ELSE LET c == At(s, end)
         IN  IF c = "\"" THEN Decoded(acc, end + 1)
             ELSE IF c = "\\" THEN
                 IF end + 1 >= Len(s) THEN JSONDecodeError
                 ELSE LET esc == At(s, end + 1)
                      IN  IF esc \in DOMAIN BACKSLASH
                          THEN scanstring(s, end + 2, acc \o BACKSLASH[esc])
                          ELSE JSONDecodeError
             ELSE IF c \in ControlChars THEN JSONDecodeError
             ELSE scanstring(s, end + 1, acc \o c)

RECURSIVE scan_once(_, _)
RECURSIVE JSONObject(_, _)
RECURSIVE object_pairs(_, _, _)
RECURSIVE JSONArray(_, _)
RECURSIVE array_items(_, _, _)

\* json.scanner.py_make_scanner._scan_once
scan_once(s, idx) ==
    IF idx >= Len(s) THEN JSONDecodeError
    ELSE LET c == At(s, idx)
             L == {i \in 1..Len(Literals) : Slice(s, idx, idx + Len(Literals[i])) = Literals[i]}
         IN  IF c = "\"" THEN
                 LET r == scanstring(s, idx + 1, "")
                 IN  IF r.ok THEN Decoded(JStr(r.val), r.end) ELSE JSONDecodeError
             ELSE IF c = "{" THEN JSONObject(s, idx + 1)
             ELSE IF c = "[" THEN JSONArray(s, idx + 1)
             ELSE IF L # {} THEN
                 LET w == Literals[CHOOSE i \in L : TRUE] IN Decoded(JLit(w), idx + Len(w))
             ELSE JSONDecodeError

\* json.decoder.JSONObject: s[end - 1] is the opening brace
JSONObject(s, end) ==
    LET e1 == skip_ws(s, end)
    IN  IF e1 >= Len(s) THEN JSONDecodeError
        ELSE IF At(s, e1) = "}" THEN Decoded(JObj(<<>>), e1 + 1)
        ELSE IF At(s, e1) # "\"" THEN JSONDecodeError
        ELSE object_pairs(s, e1 + 1, <<>>)

\* the pair loop of JSONObject: s[end - 1] is the opening quote of a key;
\* a repeated key keeps its last value
object_pairs(s, end, pairs) ==
    LET key == scanstring(s, end, "")
    IN  IF ~key.ok THEN JSONDecodeError
        ELSE
        LET e1 == skip_ws(s, key.end)
        IN  IF e1 >= Len(s) \/ At(s, e1) # ":" THEN JSONDecodeError
            ELSE
            LET value == scan_once(s, skip_ws(s, e1 + 1))
            IN  IF ~value.ok THEN JSONDecodeError
                ELSE
                LET e3 == skip_ws(s, value.end)
                    pairs2 == (key.val :> value.val) @@ pairs
                IN  IF e3 >= Len(s) THEN JSONDecodeError
                    ELSE IF At(s, e3) = "}" THEN Decoded(JObj(pairs2), e3 + 1)
                    ELSE IF At(s, e3) # "," THEN JSONDecodeError
                    ELSE LET e4 == skip_ws(s, e3 + 1)
                         IN  IF e4 >= Len(s) \/ At(s, e4) # "\"" THEN JSONDecodeError
                             ELSE object_pairs(s, e4 + 1, pairs2)

\* json.decoder.JSONArray: s[end - 1] is the opening bracket
JSONArray(s, end) ==
    LET e1 == skip_ws(s, end)
    IN  IF e1 < Len(s) /\ At(s, e1) = "]" THEN Decoded(JArr(<<>>), e1 + 1)
        ELSE array_items(s, e1, <<>>)

array_items(s, end, values) ==
    LET value == scan_once(s, end)
    IN  IF ~value.ok THEN JSONDecodeError
        ELSE
        LET e1 == skip_ws(s, value.end)
            values2 == Append(values, value.val)
        IN  IF e1 >= Len(s) THEN JSONDecodeError
            ELSE IF At(s, e1) = "]" THEN Decoded(JArr(values2), e1 + 1)
            ELSE IF At(s, e1) # "," THEN JSONDecodeError
            ELSE array_items(s, skip_ws(s, e1 + 1), values2)

\* json.loads(s): one value, whitespace around it, nothing else
json_loads(s) ==
    LET r == scan_once(s, skip_ws(s, 0))
    IN  IF ~r.ok THEN JSONDecodeError
        ELSE IF skip_ws(s, r.end) # Len(s) THEN JSONDecodeError
        ELSE r

(***************************************************************************)
(* The directive extractor (services/ollama_client.py)                     *)
(***************************************************************************)

\* _normalize_llm_action_json: "{{" -> "{" and "}}" -> "}" outside string
\* literals
\* one iteration of the while loop at index i; "skip" stands for the i += 2
\* of the two collapsing cases
normalize_step(text, i, st) ==
    LET ch == At(text, i)
    IN  IF st.skip THEN [st EXCEPT !.skip = FALSE]
        ELSE IF st.escape_next THEN
            [st EXCEPT !.out_chars = @ \o ch, !.escape_next = FALSE]
        ELSE IF ch = "\\" THEN
            [st EXCEPT !.out_chars = @ \o ch, !.escape_next = TRUE]
        ELSE IF ch = "\"" THEN
            [st EXCEPT !.out_chars = @ \o ch, !.in_string = ~@]
        ELSE IF ~st.in_string /\ ch = "{" /\ i + 1 < Len(text) /\ At(text, i + 1) = "{" THEN
            [st EXCEPT !.out_chars = @ \o "{", !.skip = TRUE]
        ELSE IF ~st.in_string /\ ch = "}" /\ i + 1 < Len(text) /\ At(text, i + 1) = "}" THEN
            [st EXCEPT !.out_chars = @ \o "}", !.skip = TRUE]
        ELSE [st EXCEPT !.out_chars = @ \o ch]

\* the iterations at lo .. hi - 1, in order (the range is halved, and the
\* state after its first half is evaluated before the second half is entered,
\* so that the evaluation stays shallow)
RECURSIVE normalize_loop(_, _, _, _)
normalize_loop(text, lo, hi, st) ==
    IF lo >= hi THEN st
    ELSE IF hi - lo = 1 THEN normalize_step(text, lo, st)
    ELSE LET mid == (lo + hi) \div 2
             left == normalize_loop(text, lo, mid, st)
         IN  CASE left.skip \in BOOLEAN -> normalize_loop(text, mid, hi, left)

_normalize_llm_action_json(text) ==
    normalize_loop(text, 0, Len(text),
                   [out_chars |-> "", in_string |-> FALSE, escape_next |-> FALSE,
                    skip |-> FALSE]).out_chars

\* one iteration of the brace count of the "ACTION:" branch; braces inside
\* string literals are not counted; json_end > 0 at the break
brace_step(action_part, i, st) ==
    LET char == At(action_part, i)
    IN  IF st.escape_next THEN [st EXCEPT !.escape_next = FALSE]
        ELSE IF char = "\\" THEN [st EXCEPT !.escape_next = TRUE]
        ELSE IF char = "\"" THEN [st EXCEPT !.in_string = ~@]
        ELSE IF ~st.in_string /\ char = "{" THEN [st EXCEPT !.brace_count = @ + 1]
        ELSE IF ~st.in_string /\ char = "}" THEN
            [st EXCEPT !.brace_count = @ - 1,
                       !.json_end = IF st.brace_count - 1 = 0 THEN i + 1 ELSE 0]
        ELSE st

\* one iteration of the brace count of the "AÇÃO:" / "ACAO:" branch: every
\* brace is counted
brace_step_acao(action_part, i, st) ==
    LET char == At(action_part, i)
    IN  IF char = "{" THEN [st EXCEPT !.brace_count = @ + 1]
        ELSE IF char = "}" THEN
            [st EXCEPT !.brace_count = @ - 1,
                       !.json_end = IF st.brace_count - 1 = 0 THEN i + 1 ELSE 0]
        ELSE st

\* the for loop over enumerate(action_part), iterations lo .. hi - 1, left
\* at the break
RECURSIVE brace_loop(_, _, _, _, _)
brace_loop(action_part, lo, hi, st, string_aware) ==
    IF lo >= hi THEN st
    ELSE IF hi - lo = 1 THEN
        IF string_aware THEN brace_step(action_part, lo, st)
        ELSE brace_step_acao(action_part, lo, st)
    ELSE LET mid == (lo + hi) \div 2
             left == brace_loop(action_part, lo, mid, st, string_aware)
         IN  IF left.json_end > 0 THEN left
             ELSE brace_loop(action_part, mid, hi, left, string_aware)

\* json_end of the "ACTION:" branch, 0 when the braces do not balance
brace_scan(action_part) ==
    brace_loop(action_part, 0, Len(action_part),
               [brace_count |-> 0, json_end |-> 0, in_string |-> FALSE,
                escape_next |-> FALSE], TRUE).json_end

\* json_end of the "AÇÃO:" / "ACAO:" branch
brace_scan_acao(action_part) ==
    brace_loop(action_part, 0, Len(action_part),
               [brace_count |-> 0, json_end |-> 0, in_string |-> FALSE,
                escape_next |-> FALSE], FALSE).json_end

\* the two attempts on the selected span: the raw parse, then the parse of
\* the normalized span; a JSONDecodeError of the second is caught by the
\* branch's except clause and parse_action returns None
load_action_json(action_json) ==
    LET first == json_loads(action_json)
    IN  IF first.ok THEN first.val
        ELSE LET second == json_loads(_normalize_llm_action_json(action_json))
             IN  IF second.ok THEN second.val ELSE None

\* everything after the marker, stripped, with a leading "{{" made "{"
action_part_of(response_text, action_start, offset) ==
    LET action_part == strip(SliceFrom(response_text, action_start + offset))
    IN  IF startswith(action_part, "{{") THEN "{" \o SliceFrom(action_part, 2)
        ELSE action_part

\* the body of the branch taken when "ACTION:" is in the text
action_branch(response_text, action_start) ==
    LET action_part == action_part_of(response_text, action_start, 7)
    IN  IF startswith(action_part, "{") THEN
            LET json_end == brace_scan(action_part)
            IN  IF json_end > 0 THEN load_action_json(Slice(action_part, 0, json_end))
                ELSE None
        ELSE None

\* the body of the branch taken when "AÇÃO:" or "ACAO:" is in the text
acao_branch(response_text, action_start) ==
    LET action_part == action_part_of(response_text, action_start, 5)
    IN  IF startswith(action_part, "{") THEN
            LET json_end == brace_scan_acao(action_part)
            IN  IF json_end > 0 THEN load_action_json(Slice(action_part, 0, json_end))
                ELSE None
        ELSE None

parse_action(response_text) ==
    LET text_upper == upper(response_text)
    IN  IF contains(text_upper, "ACTION:") THEN
            action_branch(response_text, index(text_upper, "ACTION:"))
        ELSE IF contains(text_upper, "AÇÃO:") \/ contains(text_upper, "ACAO:") THEN
            IF contains(text_upper, "AÇÃO:")
            THEN acao_branch(response_text, index(text_upper, "AÇÃO:"))
            ELSE acao_branch(response_text, index(text_upper, "ACAO:"))
        ELSE None

\* re: whether the literal m matches at index j under re.IGNORECASE
match_ci(s, j, m) ==
    /\ j + Len(m) <= Len(s)
    /\ \A n \in 0..(Len(m) - 1) : UpperChar(At(s, j + n)) = At(m, n)

\* re: \s* from index i
RECURSIVE skip_space(_, _)
skip_space(s, i) == IF i < Len(s) /\ At(s, i) \in Whitespace THEN skip_space(s, i + 1) ELSE i

\* re.sub(r'\s*(ACTION|AÇÃO):.*$', '', s, flags=re.IGNORECASE | re.MULTILINE) from
\* index i on: each match runs from the whitespace before a marker to the end
\* of the marker's line
RECURSIVE re_sub_action(_, _)
re_sub_action(s, i) ==
    LET starts == {p \in i..(Len(s) - 1) :
                      LET j == skip_space(s, p)
                      IN  match_ci(s, j, "ACTION:") \/ match_ci(s, j, "AÇÃO:")}
    IN  IF starts = {} THEN SliceFrom(s, i)
        ELSE LET p == CHOOSE q \in starts : \A r \in starts : q <= r
                 nl == find(s, "\n", skip_space(s, p))
             IN  Slice(s, i, p) \o (IF nl = -1 THEN "" ELSE re_sub_action(s, nl))

\* the line filter of strip_action_line
is_action_line(line) ==
    LET stripped == strip(line)
    IN  startswith(upper(stripped), "ACTION:") \/ startswith(upper(stripped), "AÇÃO:")

strip_action_line(response_text) ==
    LET lines == split_lines(strip(response_text))
        filtered == SelectSeq(lines, LAMBDA line : ~is_action_line(line))
        result == strip(join_lines(filtered))
    IN  IF contains(upper(result), "ACTION:") \/ contains(upper(result), "AÇÃO:")
        THEN strip(re_sub_action(result, 0))
        ELSE strip(result)

(***************************************************************************)
(* The extractor's inputs: a text is prose, a marker, a gap, a payload and *)
(* a rest, each drawn from a small set (any of them may be empty)          *)
(***************************************************************************)

Directive(tool, args) == JObj(("tool" :> JStr(tool)) @@ ("args" :> args))

\* {tool, args} objects, each written with single braces and with
\* template-style doubled braces, and the value the text denotes
Directives == <<
    [ single  |-> "{\"tool\":\"x\",\"args\":{}}",
      doubled |-> "{{\"tool\":\"x\",\"args\":{{}}}}",
      val     |-> Directive("x", JObj(<<>>)) ],
    [ single  |-> "{\"tool\": \"x\", \"args\": {\"q\": \"a b\"}}",
      doubled |-> "{{\"tool\": \"x\", \"args\": {{\"q\": \"a b\"}}}}",
      val     |-> Directive("x", JObj("q" :> JStr("a b"))) ],
    [ single  |-> "{\"tool\":\"x\",\"args\":{\"a\":{\"b\":[\"c\",{}]},\"d\":[]}}",
      doubled |-> "{{\"tool\":\"x\",\"args\":{{\"a\":{{\"b\":[\"c\",{{}}]}},\"d\":[]}}}}",
      val     |-> Directive("x", JObj(("a" :> JObj("b" :> JArr(<<JStr("c"), JObj(<<>>)>>)))
                                      @@ ("d" :> JArr(<<>>)))) ],
    [ single  |-> "{\n  \"tool\": \"x\",\n  \"args\": {}\n}",
      doubled |-> "{{\n  \"tool\": \"x\",\n  \"args\": {{}}\n}}",
      val     |-> Directive("x", JObj(<<>>)) ],
    [ single  |-> "{\"tool\":\"x\",\"args\":{\"q\":\"}\"}}",
      doubled |-> "{{\"tool\":\"x\",\"args\":{{\"q\":\"}\"}}}}",
      val     |-> Directive("x", JObj("q" :> JStr("}"))) ],
    [ single  |-> "{\"tool\":\"x\",\"args\":{\"q\":\"{\"}}",
      doubled |-> "{{\"tool\":\"x\",\"args\":{{\"q\":\"{\"}}}}",
      val     |-> Directive("x", JObj("q" :> JStr("{"))) ],
    [ single  |-> "{\"tool\":\"x\",\"args\":{\"q\":\"a\\\"}{{\"}}",
      doubled |-> "{{\"tool\":\"x\",\"args\":{{\"q\":\"a\\\"}{{\"}}}}",
      val     |-> Directive("x", JObj("q" :> JStr("a\"}{{"))) ] >>

\* the directives whose args hold a string value with a literal brace
BraceInString == {5, 6, 7}
\* the directives written on several lines
MultiLine == {4}

\* payloads that are no JSON object
Malformed == {
    "x",
    "{",
    "{\"tool\":\"x\"",
    "{\"tool\":x}",
    "[\"x\"]",
    "{\n\"tool\": \"x\",\n\"args\": {\n",
    "{{\"tool\":x}}" }

Prefixes == {"", "Ok ", "Ok.\n", " \nOk"}
Markers == {"", "ACTION:", "action:", "AÇÃO:", "Ação:", "ACAO:"}
Gaps == {"", " ", "\n"}
Posts == {
    "",
    " \n",
    "\nfim",
    "\nACTION: {\"tool\":\"y\",\"args\":{}}",
    "\nAção: {\"tool\":\"y\",\"args\":{}}" }

Payloads ==
    {[text |-> Directives[d].single, form |-> "single", d |-> d] : d \in DOMAIN Directives}
    \cup {[text |-> Directives[d].doubled, form |-> "doubled", d |-> d] : d \in DOMAIN Directives}
    \cup {[text |-> m, form |-> "malformed", d |-> 0] : m \in Malformed}
    \cup {[text |-> "", form |-> "none", d |-> 0]}

(***************************************************************************)
(* The extractor as a state machine: one call of parse_action and          *)
(* strip_action_line on one text, as stream_ollama_chat makes them         *)
(***************************************************************************)

ex_vars == <<ex_text, ex_gen, ex_action, ex_clean, ex_pc>>
st_vars == <<st_pc, upstream, accumulated_text, pending_action, full_text, raw_text,
             action_detected, out, model_calls, conv_mode, saved, st_fault>>
ch_vars == <<ch_pc, ch_raw, ch_action, ch_reply, ch_used_search, ch_calls, ch_dispatched,
             ch_action_result, ch_final_raw, ch_status>>
dt_vars == <<dt_pc, dt_tool, dt_args, dt_storage, dt_remote, dt_result>>
sw_vars == <<sw_pc, sw_query, sw_max_results, sw_retries, sw_attempt, sw_cache, sw_now, sw_ret,
             sw_source, sw_trace, sw_outcomes, sw_calls, sw_served, sw_prior, sw_ranked>>
mc_vars == <<mc_cache, mc_now, mc_rows, mc_user, mc_message, mc_ret, mc_log, mc_calls, mc_failed, mc_prior>>
uc_vars == <<uc_op, uc_user, uc_ret, uc_log, uc_calls, uc_written, uc_prior, uc_built, uc_invalidated, uc_refetch>>
rc_vars == <<rc_cache, rc_now, rc_pc, rc_entry, rc_ret, rc_calls, rc_evicted>>
tk_vars == <<tk_pc, tk_search_results, tk_response_text, tk_action, tk_clean_response, tk_action_result, tk_published, tk_ret>>
vc_vars == <<vc_is_active, vc_processing, vc_audio_chunks, vc_pipes, vc_started, vc_received, vc_sent, vc_last, vc_dropped, vc_ended>>
vars == <<ex_vars, st_vars, ch_vars, dt_vars, sw_vars, mc_vars, uc_vars, rc_vars, tk_vars, vc_vars>>

\* what the extractor, the streaming session and the chat turn leave alone
non_ex_vars == <<st_vars, ch_vars, dt_vars, sw_vars, mc_vars, uc_vars, rc_vars, tk_vars, vc_vars>>
non_st_vars == <<ex_vars, ch_vars, dt_vars, sw_vars, mc_vars, uc_vars, rc_vars, tk_vars, vc_vars>>
non_ch_vars == <<ex_vars, st_vars, dt_vars, sw_vars, mc_vars, uc_vars, rc_vars, tk_vars, vc_vars>>
non_dt_vars == <<ex_vars, st_vars, ch_vars, sw_vars, mc_vars, uc_vars, rc_vars, tk_vars, vc_vars>>
non_sw_vars == <<ex_vars, st_vars, ch_vars, dt_vars, mc_vars, uc_vars, rc_vars, tk_vars, vc_vars>>
non_mc_vars == <<ex_vars, st_vars, ch_vars, dt_vars, sw_vars, uc_vars, rc_vars, tk_vars, vc_vars>>
non_uc_vars == <<ex_vars, st_vars, ch_vars, dt_vars, sw_vars, mc_vars, rc_vars, tk_vars, vc_vars>>
non_rc_vars == <<ex_vars, st_vars, ch_vars, dt_vars, sw_vars, mc_vars, uc_vars, tk_vars, vc_vars>>
non_tk_vars == <<ex_vars, st_vars, ch_vars, dt_vars, sw_vars, mc_vars, uc_vars, rc_vars, vc_vars>>
non_vc_vars == <<ex_vars, st_vars, ch_vars, dt_vars, sw_vars, mc_vars, uc_vars, rc_vars, tk_vars>>

\* no call of dispatch_tool
DispatchOff ==
    /\ dt_pc = "off"
    /\ dt_tool = None
    /\ dt_args = None
    /\ dt_storage = "ok"
    /\ dt_remote = "ok"
    /\ dt_result = [outcome |-> "none", message |-> ""]

\* no call of search_web
SearchOff ==
    /\ sw_pc = "off"
    /\ sw_query = ""
    /\ sw_max_results = 0
    /\ sw_retries = 0
    /\ sw_attempt = 0
    /\ sw_cache = <<>>
    /\ sw_now = 0
    /\ sw_ret = <<>>
    /\ sw_source = "none"
    /\ sw_trace = <<>>
    /\ sw_outcomes = <<>>
    /\ sw_calls = 0
    /\ sw_served = <<>>
    /\ sw_prior = None
    /\ sw_ranked = [body |-> "", items |-> <<>>]

\* no call of get_relevant_memories_cached
MemoriesOff ==
    /\ mc_cache = <<>>
    /\ mc_now = 0
    /\ mc_rows = <<>>
    /\ mc_user = None
    /\ mc_message = ""
    /\ mc_ret = <<>>
    /\ mc_log = <<>>
    /\ mc_calls = 0
    /\ mc_failed = <<>>
    /\ mc_prior = None

\* no chat turn
ChatOff ==
    /\ ch_pc = "off"
    /\ ch_raw = ""
    /\ ch_action = None
    /\ ch_reply = ""
    /\ ch_used_search = FALSE
    /\ ch_calls = 0
    /\ ch_dispatched = <<>>
    /\ ch_action_result = "none"
    /\ ch_final_raw = ""
    /\ ch_status = "none"

\* no streaming session
StreamOff ==
    /\ st_pc = "off"
    /\ upstream = <<>>
    /\ accumulated_text = ""
    /\ pending_action = None
    /\ full_text = ""
    /\ raw_text = ""
    /\ action_detected = None
    /\ out = <<>>
    /\ model_calls = 0
    /\ conv_mode = "new"
    /\ saved = None
    /\ st_fault = "none"

\* no extractor call of its own
ExtractOff ==
    /\ ex_text = ""
    /\ ex_gen = [pre |-> "", marker |-> "", gap |-> "", payload |-> "", form |-> "none",
                 d |-> 0, post |-> ""]
    /\ ex_action = None
    /\ ex_clean = ""
    /\ ex_pc = "off"

\* no call of the cached getters
ContextOff ==
    /\ uc_op = "off"
    /\ uc_user = None
    /\ uc_ret = [outcome |-> "none", value |-> ""]
    /\ uc_log = <<>>
    /\ uc_calls = 0
    /\ uc_written = <<>>
    /\ uc_prior = None
    /\ uc_built = 0
    /\ uc_invalidated = <<>>
    /\ uc_refetch = None

\* no thread in search_web
RaceOff ==
    /\ rc_cache = <<>>
    /\ rc_now = 0
    /\ rc_pc = <<>>
    /\ rc_entry = <<>>
    /\ rc_ret = <<>>
    /\ rc_calls = <<>>
    /\ rc_evicted = None

TaskOff ==
    /\ tk_pc = "off"
    /\ tk_search_results = <<>>
    /\ tk_response_text = ""
    /\ tk_action = None
    /\ tk_clean_response = ""
    /\ tk_action_result = None
    /\ tk_published = <<>>
    /\ tk_ret = None

VoiceOff ==
    /\ vc_is_active = FALSE
    /\ vc_processing = FALSE
    /\ vc_audio_chunks = <<>>
    /\ vc_pipes = <<>>
    /\ vc_started = 0
    /\ vc_received = 0
    /\ vc_sent = "off"
    /\ vc_last = "none"
    /\ vc_dropped = FALSE
    /\ vc_ended = "none"

ExtractInit ==
    /\ \E pre \in Prefixes, marker \in Markers, gap \in Gaps, pl \in Payloads, post \in Posts :
          /\ ex_gen = [pre |-> pre, marker |-> marker, gap |-> gap, payload |-> pl.text,
                       form |-> pl.form, d |-> pl.d, post |-> post]
          /\ ex_text = pre \o marker \o gap \o pl.text \o post
    /\ ex_action = None
    /\ ex_clean = ""
    /\ ex_pc = "input"
    /\ StreamOff
    /\ ChatOff
    /\ DispatchOff
    /\ SearchOff
    /\ MemoriesOff
    /\ ContextOff
    /\ RaceOff
    /\ TaskOff
    /\ VoiceOff

\* action = parse_action(accumulated_text); clean_text = strip_action_line(accumulated_text)
Extract ==
    /\ ex_pc = "input"
    /\ ex_action' = parse_action(ex_text)
    /\ ex_clean' = strip_action_line(ex_text)
    /\ ex_pc' = "done"
    /\ UNCHANGED <<ex_text, ex_gen, non_ex_vars>>

ExtractNext == Extract

SpecExtract == ExtractInit /\ [][ExtractNext]_vars

(***************************************************************************)
(* Properties of the extractor                                             *)
(***************************************************************************)

\* the three markers, as they are recognized in any letter case
MarkerWords == {"ACTION:", "AÇÃO:", "ACAO:"}
MarkerAt(t, i) == \E m \in MarkerWords : match_ci(t, i, m)
HasMarker(t) == \E i \in 0..(Len(t) - 1) : MarkerAt(t, i)
FirstMarker(t) == CHOOSE i \in 0..(Len(t) - 1) : MarkerAt(t, i) /\ \A j \in 0..(i - 1) : ~MarkerAt(t, j)

\* what the marker at index p alone yields, by the branch of its kind
ParsedFrom(t, p) == IF match_ci(t, p, "ACTION:") THEN action_branch(t, p) ELSE acao_branch(t, p)

\* some non-blank line of the payload is still in the clean text
PayloadLeaks(payload, clean) ==
    \E i \in 1..Len(split_lines(payload)) :
        LET line == strip(split_lines(payload)[i]) IN line # "" /\ contains(clean, line)

\* C1: a text without any marker yields no directive and a clean text equal to
\* the text, character for character
C1_IdentityWithoutMarker ==
    (ex_pc = "done" /\ ~HasMarker(ex_text)) => (ex_action = None /\ ex_clean = ex_text)

\* C1, the input "Ok.\n": the clean text has lost the final newline
C1_TrimmedInput ==
    ex_pc = "done" /\ ex_text = "Ok.\n" /\ ex_action = None /\ ex_clean = "Ok."

\* C2: when the first marker is followed by a directive with a brace inside a
\* string value, the directive is returned in full, whichever marker it is
C2_BraceInsideString ==
    (ex_pc = "done" /\ ex_gen.marker # "" /\ ex_gen.form = "single" /\ ex_gen.d \in BraceInString)
        => ex_action = Directives[ex_gen.d].val

\* C2, the input 'AÇÃO: {"tool":"x","args":{"q":"}"}}': no directive comes back
C2_LocalizedBraceInput ==
    /\ ex_pc = "done"
    /\ ex_text = "AÇÃO: {\"tool\":\"x\",\"args\":{\"q\":\"}\"}}"
    /\ ex_action = None

\* C3: with one or more markers in the text, the result is what the earliest
\* marker yields; a later marker never decides it
C3_EarliestMarkerDecides ==
    (ex_pc = "done" /\ HasMarker(ex_text)) => ex_action = ParsedFrom(ex_text, FirstMarker(ex_text))

\* C3, an "Ação:" directive x followed by an "ACTION:" directive y: y comes back
C3_LaterActionInput ==
    /\ ex_pc = "done"
    /\ ex_text = "Ação: {\"tool\":\"x\",\"args\":{}}\nACTION: {\"tool\":\"y\",\"args\":{}}"
    /\ ex_action = Directive("y", JObj(<<>>))

\* C4: with a directive parsed, the clean text is the text before the first
\* marker, trimmed
C4_CleanTextIsPrefix ==
    (ex_pc = "done" /\ ex_action # None)
        => ex_clean = strip(Slice(ex_text, 0, FirstMarker(ex_text)))

\* C4, a directive written on several lines: its later lines stay in the clean text
C4_MultiLineInput ==
    /\ ex_pc = "done"
    /\ ex_text = "Ok.\nACTION: {\n  \"tool\": \"x\",\n  \"args\": {}\n}"
    /\ ex_action = Directive("x", JObj(<<>>))
    /\ ex_clean = "Ok.\n  \"tool\": \"x\",\n  \"args\": {}\n}"

\* C5: a marker followed by a payload that is no JSON object yields no
\* directive, and a clean text with neither a marker nor a line of the payload
C5_MalformedIsStripped ==
    (ex_pc = "done" /\ ex_gen.marker # "" /\ ex_gen.form = "malformed")
        => /\ ex_action = None
           /\ ~HasMarker(ex_clean)
           /\ ~PayloadLeaks(ex_gen.payload, ex_clean)

\* C5, the input 'Ok ACAO: x': marker and payload stay in the clean text
C5_AcaoInput ==
    ex_pc = "done" /\ ex_text = "Ok ACAO: x" /\ ex_action = None /\ ex_clean = "Ok ACAO: x"

\* C6: a {tool, args} object right after a marker, with any whitespace around
\* it, comes back with exactly its tool and args
C6_RoundTrip ==
    (ex_pc = "done" /\ ex_gen.marker # "" /\ ex_gen.form = "single")
        => ex_action = Directives[ex_gen.d].val

\* C6, the input 'Ação:{"tool":"x","args":{"q":"{"}}': no directive comes back
C6_LocalizedInput ==
    /\ ex_pc = "done"
    /\ ex_text = "Ação:{\"tool\":\"x\",\"args\":{\"q\":\"{\"}}"
    /\ ex_action = None

\* C7: a directive written with doubled braces at every level comes back with
\* the tool and args of its single-brace form
C7_DoubledBraces ==
    (ex_pc = "done" /\ ex_gen.marker # "" /\ ex_gen.form = "doubled")
        => ex_action = Directives[ex_gen.d].val

\* C7, the input 'AÇÃO: {{"tool":"x","args":{{"q":"}"}}}}': no directive comes back
C7_LocalizedDoubledInput ==
    /\ ex_pc = "done"
    /\ ex_text = "AÇÃO: {{\"tool\":\"x\",\"args\":{{\"q\":\"}\"}}}}"
    /\ ex_action = None

\* Under the "ACTION:" marker every directive of the table, single or doubled,
\* comes back as written (the string-aware branch)
ActionMarkerRecovers ==
    (ex_pc = "done" /\ ex_gen.marker \in {"ACTION:", "action:"} /\ ex_gen.d # 0)
        => ex_action = Directives[ex_gen.d].val

\* Without a marker the clean text is the text with the surrounding whitespace
\* removed, and nothing else changed
TrimmedWithoutMarker ==
    (ex_pc = "done" /\ ~HasMarker(ex_text)) => (ex_action = None /\ ex_clean = strip(ex_text))

(***************************************************************************)
(* One streaming session: ChatStreamView.post.event_stream (views.py)      *)
(* consuming stream_ollama_chat (services/ollama_client.py).  Both are     *)
(* generators run by one thread; an action below is the code that runs     *)
(* from one SSE event written to the client to the next one, or to the end.*)
(***************************************************************************)

\* the lines of one model response: at most this many before the stream ends
MaxLines == 3

WebSearchLine ==
    "\nACTION: {\"tool\": \"web_search\", \"args\": {\"query\": \"resultado jogo\"}}"
WebSearch == Directive("web_search", JObj("query" :> JStr("resultado jogo")))

\* message.content of a line of the response
ProseChunks == {"Vou pesquisar.", "\n"}
Chunks == ProseChunks \cup {WebSearchLine, "\nACTION: {"}

\* lines that yield nothing: an empty line, a line that is no JSON, a line
\* without content
IgnoredLines == {"blank", "bad_json", "no_content"}

Event(type, data) == [type |-> type, data |-> data]
Line(kind, content) == [kind |-> kind, content |-> content]

\* Python's truth value of what parse_action returned: None and {} are false
Truthy(a) == a # None /\ ~(a.k = "obj" /\ DOMAIN a.v = {})

StreamInit ==
    /\ st_pc = "start"
    /\ upstream = <<>>
    /\ accumulated_text = ""
    /\ pending_action = None
    /\ full_text = ""
    /\ raw_text = ""
    /\ action_detected = None
    /\ out = <<>>
    /\ model_calls = 0
    /\ conv_mode \in {"existing", "new", "missing"}
    /\ saved = None
    /\ st_fault = "none"
    /\ ExtractOff
    /\ ChatOff
    /\ DispatchOff
    /\ SearchOff
    /\ MemoriesOff
    /\ ContextOff
    /\ RaceOff
    /\ TaskOff
    /\ VoiceOff

\* build_messages raises: the except clause of event_stream writes an error event
BuildMessagesFails ==
    /\ st_pc = "start"
    /\ out' = Append(out, Event("error", JStr("build_messages")))
    /\ st_fault' = "build"
    /\ st_pc' = "closed"
    /\ UNCHANGED <<upstream, accumulated_text, pending_action, full_text, raw_text,
                   action_detected, model_calls, conv_mode, saved, non_st_vars>>

\* requests.post or raise_for_status raises: stream_ollama_chat yields an error
\* event, event_stream writes it and returns
RequestFails ==
    /\ st_pc = "start"
    /\ model_calls' = model_calls + 1
    /\ out' = Append(out, Event("error", JStr("Error streaming from Ollama")))
    /\ st_fault' = "request"
    /\ st_pc' = "closed"
    /\ UNCHANGED <<upstream, accumulated_text, pending_action, full_text, raw_text,
                   action_detected, conv_mode, saved, non_st_vars>>

\* the request is accepted: the loop over response.iter_lines() starts
RequestAccepted ==
    /\ st_pc = "start"
    /\ model_calls' = model_calls + 1
    /\ st_pc' = "loop"
    /\ UNCHANGED <<upstream, accumulated_text, pending_action, full_text, raw_text,
                   action_detected, out, conv_mode, saved, st_fault, non_st_vars>>

\* RecvChunk with the event carrying the accumulated text instead of the chunk
RecvChunk_Accumulated(chunk) ==
    /\ st_pc = "loop"
    /\ Len(upstream) < MaxLines
    /\ upstream' = Append(upstream, Line("chunk", chunk))
    /\ accumulated_text' = accumulated_text \o chunk
    /\ out' = Append(out, Event("chunk", JStr(accumulated_text \o chunk)))
    /\ UNCHANGED <<st_pc, pending_action, full_text, raw_text, action_detected,
                   model_calls, conv_mode, saved, st_fault, non_st_vars>>

\* a line with content: it is accumulated, yielded, and written as a chunk event
RecvChunk(chunk) ==
    /\ st_pc = "loop"
    /\ Len(upstream) < MaxLines
    /\ upstream' = Append(upstream, Line("chunk", chunk))
    /\ accumulated_text' = accumulated_text \o chunk
    /\ out' = Append(out, Event("chunk", JStr(chunk)))
    /\ UNCHANGED <<st_pc, pending_action, full_text, raw_text, action_detected,
                   model_calls, conv_mode, saved, st_fault, non_st_vars>>

\* an empty line, a line that json.loads rejects, or a line with no content:
\* the loop continues
RecvIgnored(kind) ==
    /\ st_pc = "loop"
    /\ Len(upstream) < MaxLines
    /\ upstream' = Append(upstream, Line(kind, ""))
    /\ UNCHANGED <<st_pc, accumulated_text, pending_action, full_text, raw_text,
                   action_detected, out, model_calls, conv_mode, saved, st_fault, non_st_vars>>

\* the line with the done flag: stream_ollama_chat parses the accumulated text
\* and yields the done event; event_stream writes final_text if the clean text
\* is shorter than the raw text, and done otherwise
RecvDone ==
    /\ st_pc = "loop"
    /\ upstream' = Append(upstream, Line("done", ""))
    /\ LET action == parse_action(accumulated_text)
           clean_text == strip_action_line(accumulated_text)
       IN  /\ pending_action' = action
           /\ full_text' = clean_text
           /\ raw_text' = accumulated_text
           /\ IF Len(accumulated_text) > Len(clean_text)
              THEN /\ out' = Append(out, Event("final_text", JStr(clean_text)))
                   /\ st_pc' = "final_text_sent"
              ELSE /\ out' = Append(out, Event("done", None))
                   /\ st_pc' = "done_sent"
    /\ UNCHANGED <<accumulated_text, action_detected, model_calls, conv_mode, saved,
                   st_fault, non_st_vars>>

\* after final_text, event_stream writes done
WriteDone ==
    /\ st_pc = "final_text_sent"
    /\ out' = Append(out, Event("done", None))
    /\ st_pc' = "done_sent"
    /\ UNCHANGED <<upstream, accumulated_text, pending_action, full_text, raw_text,
                   action_detected, model_calls, conv_mode, saved, st_fault, non_st_vars>>

\* after its done event stream_ollama_chat yields the action, if there is one,
\* and event_stream writes it
WriteAction ==
    /\ st_pc = "done_sent"
    /\ Truthy(pending_action)
    /\ action_detected' = pending_action
    /\ out' = Append(out, Event("action", pending_action))
    /\ st_pc' = "action_sent"
    /\ UNCHANGED <<upstream, accumulated_text, pending_action, full_text, raw_text,
                   model_calls, conv_mode, saved, st_fault, non_st_vars>>

\* stream_ollama_chat breaks out of its loop and returns; the for loop of
\* event_stream ends
StreamReturns ==
    /\ IF st_pc = "done_sent" THEN ~Truthy(pending_action) ELSE st_pc = "action_sent"
    /\ st_pc' = "bookkeeping"
    /\ UNCHANGED <<upstream, accumulated_text, pending_action, full_text, raw_text,
                   action_detected, out, model_calls, conv_mode, saved, st_fault, non_st_vars>>

\* the response ends with no done flag: the loop over its lines ends, nothing
\* is yielded, and the for loop of event_stream ends
StreamEnds ==
    /\ st_pc = "loop"
    /\ upstream' = Append(upstream, Line("end", ""))
    /\ st_pc' = "bookkeeping"
    /\ UNCHANGED <<accumulated_text, pending_action, full_text, raw_text, action_detected,
                   out, model_calls, conv_mode, saved, st_fault, non_st_vars>>

\* StreamFails with the exception caught inside the loop over the lines: the
\* error event is written and the loop goes on
StreamFails_Continue ==
    /\ st_pc = "loop"
    /\ upstream' = Append(upstream, Line("error", ""))
    /\ out' = Append(out, Event("error", JStr("Error streaming from Ollama")))
    /\ st_fault' = "stream"
    /\ UNCHANGED <<st_pc, accumulated_text, pending_action, full_text, raw_text,
                   action_detected, model_calls, conv_mode, saved, non_st_vars>>

\* reading the response raises: stream_ollama_chat yields an error event,
\* event_stream writes it and returns
StreamFails ==
    /\ st_pc = "loop"
    /\ upstream' = Append(upstream, Line("error", ""))
    /\ out' = Append(out, Event("error", JStr("Error streaming from Ollama")))
    /\ st_fault' = "stream"
    /\ st_pc' = "closed"
    /\ UNCHANGED <<accumulated_text, pending_action, full_text, raw_text, action_detected,
                   model_calls, conv_mode, saved, non_st_vars>>

\* the messages of the turn are stored (nothing is, when the conversation id
\* of the request was not found)
SaveConversation ==
    /\ st_pc = "bookkeeping"
    /\ saved' = IF conv_mode = "missing" THEN saved ELSE JStr(full_text)
    /\ st_pc' = "closed"
    /\ UNCHANGED <<upstream, accumulated_text, pending_action, full_text, raw_text,
                   action_detected, out, model_calls, conv_mode, st_fault, non_st_vars>>

\* storing the messages raises: the except clause of event_stream writes an
\* error event
SaveFails ==
    /\ st_pc = "bookkeeping"
    /\ conv_mode # "missing"
    /\ out' = Append(out, Event("error", JStr("save")))
    /\ st_fault' = "save"
    /\ st_pc' = "closed"
    /\ UNCHANGED <<upstream, accumulated_text, pending_action, full_text, raw_text,
                   action_detected, model_calls, conv_mode, saved, non_st_vars>>

Init == StreamInit

Next ==
    \/ BuildMessagesFails
    \/ RequestFails
    \/ RequestAccepted
    \/ \E chunk \in Chunks : RecvChunk(chunk)
    \/ \E kind \in IgnoredLines : RecvIgnored(kind)
    \/ RecvDone
    \/ WriteDone
    \/ WriteAction
    \/ StreamReturns
    \/ StreamEnds
    \/ StreamFails
    \/ SaveConversation
    \/ SaveFails

Spec == Init /\ [][Next]_vars

(***************************************************************************)
(* Properties of the streaming session                                     *)
(***************************************************************************)

\* the chunks received so far, in order
ChunksReceived == SelectSeq(upstream, LAMBDA l : l.kind = "chunk")

\* one chunk event per chunk received, in the order received
ChunkEvents == [i \in 1..Len(ChunksReceived) |-> Event("chunk", JStr(ChunksReceived[i].content))]

RECURSIVE Concat(_)
Concat(lines) == IF lines = <<>> THEN "" ELSE Head(lines).content \o Concat(Tail(lines))

\* the session is over, the response carried its done flag and nothing failed
EndedNormally ==
    /\ st_pc = "closed"
    /\ st_fault = "none"
    /\ upstream # <<>>
    /\ upstream[Len(upstream)].kind = "done"

\* the text received is prose followed by the web_search directive
SearchScenario ==
    /\ Len(ChunksReceived) >= 2
    /\ ChunksReceived[Len(ChunksReceived)].content = WebSearchLine
    /\ \A i \in 1..(Len(ChunksReceived) - 1) : ChunksReceived[i].content \in ProseChunks
    /\ ChunksReceived[1].content # "\n"

\* C8: prose followed by a web_search directive: the chunk events, final_text
\* with the prose, the action event, a second model call, and done last
C8_SearchEventOrder ==
    (EndedNormally /\ SearchScenario)
        => /\ out = ChunkEvents \o <<Event("final_text", JStr(strip(Concat(SubSeq(ChunksReceived, 1, Len(ChunksReceived) - 1))))),
                                    Event("action", WebSearch),
                                    Event("done", None)>>
           /\ model_calls = 2

\* C8, the scenario of the specification: done is written before the action
\* event and the model is called once
C8_DoneBeforeAction ==
    /\ st_pc = "closed"
    /\ st_fault = "none"
    /\ out = <<Event("chunk", JStr("Vou pesquisar.")),
               Event("chunk", JStr(WebSearchLine)),
               Event("final_text", JStr("Vou pesquisar.")),
               Event("done", None),
               Event("action", WebSearch)>>
    /\ model_calls = 1

\* C9: a text without a marker: the chunk events, then done, and nothing else
C9_PlainStreamEvents ==
    (EndedNormally /\ ~HasMarker(raw_text)) => out = ChunkEvents \o <<Event("done", None)>>

\* C9, the text "Vou pesquisar.\n": a final_text event is written
C9_FinalTextWithoutMarker ==
    /\ st_pc = "closed"
    /\ st_fault = "none"
    /\ out = <<Event("chunk", JStr("Vou pesquisar.")),
               Event("chunk", JStr("\n")),
               Event("final_text", JStr("Vou pesquisar.")),
               Event("done", None)>>

Terminal(e) == e.type \in {"done", "error"}

\* C10: a terminal event (done or error) is the last event written: there is
\* at most one, and nothing follows it
C10_TerminalEventIsLast == \A i \in 1..Len(out) : Terminal(out[i]) => i = Len(out)

\* C10, storing the conversation fails after done was written: done, then error
C10_ErrorAfterDone ==
    /\ st_pc = "closed"
    /\ st_fault = "save"
    /\ out = <<Event("chunk", JStr("Vou pesquisar.")), Event("done", None),
               Event("error", JStr("save"))>>

OfType(events, type) == SelectSeq(events, LAMBDA e : e.type = type)

\* C11: the chunk events written are the chunks received, one event per
\* chunk, with the same text and in the same order, and every chunk event is
\* written before any event of another type
C11_ChunksForwardedInOrder ==
    /\ OfType(out, "chunk") = ChunkEvents
    /\ \A i \in 1..Len(out) : out[i].type = "chunk" => \A j \in 1..i : out[j].type = "chunk"

\* C11, a finished session that received two different chunks and a line
\* without content
C11_TwoChunksReceived ==
    /\ EndedNormally
    /\ Len(ChunksReceived) = 2
    /\ ChunksReceived[1].content # ChunksReceived[2].content
    /\ \E i \in 1..Len(upstream) : upstream[i].kind = "no_content"
    /\ Len(OfType(out, "chunk")) = 2

\* C12: when the request to the model or the reading of its response fails,
\* the session writes exactly one error event, as its last event, writes no
\* done event, and has called the model once
C12_StreamFailureIsOneError ==
    st_fault \in {"request", "stream"}
        => /\ Len(OfType(out, "error")) = 1
           /\ out[Len(out)].type = "error"
           /\ OfType(out, "done") = <<>>
           /\ OfType(out, "final_text") = <<>>
           /\ OfType(out, "action") = <<>>
           /\ model_calls = 1

\* C12, the response fails after two chunks were forwarded
C12_FailureAfterChunks ==
    /\ st_pc = "closed"
    /\ st_fault = "stream"
    /\ Len(ChunksReceived) = 2
    /\ Len(out) = 3
    /\ out[3].type = "error"

(***************************************************************************)
(* One turn of the non-streaming chat path: ChatView.post (views.py)       *)
(* calling handle_user_message (services/ollama_client.py).  An action is  *)
(* the code that runs from one call of the model or of dispatch_tool to    *)
(* the next.                                                               *)
(***************************************************************************)

\* s.replace(old, new)
RECURSIVE replace(_, _, _)
replace(s, old, new) ==
    LET p == find(s, old, 0)
    IN  IF p = -1 THEN s
        ELSE Slice(s, 0, p) \o new \o replace(SliceFrom(s, p + Len(old)), old, new)

\* s.split(sep)[1], for a text that contains sep
split_second(s, sep) ==
    LET rest == SliceFrom(s, find(s, sep, 0) + Len(sep))
        q == find(rest, sep, 0)
    IN  IF q = -1 THEN rest ELSE Slice(rest, 0, q)

\* Python's truth value of a JSON value
is_true(v) ==
    CASE v.k = "none" -> FALSE
      [] v.k = "str" -> v.v # ""
      [] v.k = "obj" -> DOMAIN v.v # {}
      [] v.k = "arr" -> v.v # <<>>
      [] v.k = "lit" -> v.v \notin {"null", "false"}

\* d.get(key, default) of a dict d
dict_get(d, key, default) == IF key \in DOMAIN d.v THEN d.v[key] ELSE default

\* the action the manual parse leaves, when parse_action returned None and the
\* clean response is empty
manual_action(raw_response) ==
    LET action_part == strip(split_second(raw_response, "ACTION:"))
        opened == replace(action_part, "{{", "{")
        loaded == json_loads(replace(opened, "}}", "}"))
    IN  IF ~contains(raw_response, "ACTION:") THEN None
        ELSE IF loaded.ok THEN (IF loaded.val = JLit("null") THEN None ELSE loaded.val)
        ELSE IF contains(raw_response, "save_note")
             THEN Directive("save_note", JObj(<<>>))
        ELSE None

DefaultReplies == <<
    [tool |-> "save_note", reply |-> "Vou criar essa nota para ti."],
    [tool |-> "add_shopping_item", reply |-> "Vou adicionar isso à lista de compras."],
    [tool |-> "add_agenda_event", reply |-> "Vou adicionar esse evento à agenda."],
    [tool |-> "terminal_command", reply |-> "Vou executar esse comando."],
    [tool |-> "homeassistant_call_service", reply |-> "Entendido, vou fazer isso."],
    [tool |-> "homeassistant_get_states", reply |-> "Vou verificar o estado dos dispositivos."] >>

\* the reply that stands in for an empty clean response
default_reply(tool_name, raw_response) ==
    LET hits == {i \in DOMAIN DefaultReplies :
                    \/ tool_name = JStr(DefaultReplies[i].tool)
                    \/ contains(raw_response, DefaultReplies[i].tool)}
    IN  IF hits = {} THEN "Vou tratar disso."
        ELSE DefaultReplies[CHOOSE i \in hits : \A j \in hits : i <= j].reply

\* whether the clean response is empty and the response looks like an action
looks_empty(raw_response, parsed, clean_response) ==
    /\ strip(clean_response) = ""
    /\ (is_true(parsed) \/ contains(raw_response, "ACTION:")
                        \/ contains(raw_response, "save_note"))

\* what handle_user_message does with the action once it has it: it raises
\* (an action that is no dict, args that are no dict), returns, or goes on
\* to the web search
first_outcome(raw_response, action, empty, clean_response) ==
    IF ~is_true(action) THEN
        [next |-> "return", action |-> None,
         reply |-> IF empty THEN default_reply(JStr(""), raw_response) ELSE clean_response]
    ELSE IF action.k # "obj" THEN
        [next |-> "raise", action |-> action, reply |-> clean_response]
    ELSE
        [next |-> IF dict_get(action, "tool", None) # JStr("web_search") THEN "return"
                  ELSE IF dict_get(action, "args", JObj(<<>>)).k # "obj" THEN "raise"
                  ELSE "search",
         action |-> action,
         reply |-> IF empty THEN default_reply(dict_get(action, "tool", JStr("")), raw_response)
                   ELSE clean_response]

first_decide(raw_response, parsed, empty, clean_response) ==
    first_outcome(raw_response,
                  IF empty /\ ~is_true(parsed) THEN manual_action(raw_response) ELSE parsed,
                  empty, clean_response)

first_parsed(raw_response, parsed, clean_response) ==
    first_decide(raw_response, parsed, looks_empty(raw_response, parsed, clean_response),
                 clean_response)

\* handle_user_message from the first response to the point where it returns,
\* raises or goes on to the web search: the action, the reply and what comes next
first_pass(raw_response) ==
    first_parsed(raw_response, parse_action(raw_response), strip_action_line(raw_response))

TerminalLine == "ACTION: {\"tool\": \"terminal_command\", \"args\": {\"command\": \"ls\"}}"
StatesLine == "ACTION: {\"tool\": \"homeassistant_get_states\", \"args\": {}}"

\* what the model may answer to the first call
FirstResponses == {
    "",
    "Ola.",
    "Vou pesquisar." \o WebSearchLine,
    "ACTION: {\"tool\": \"web_search\", \"args\": \"jogo\"}",
    TerminalLine,
    "Vou ver.\n" \o StatesLine,
    "ACTION: {{\"tool\": \"save_note\", \"args\": {{\"text\": \"x\"}}}}",
    "ACTION: save_note",
    "ACTION: [\"x\"]",
    "ACTION: {}",
    "Ação: {\"tool\": \"terminal_command\", \"args\": {\"command\": \"ls\"}}",
    "Anotado.\nACTION: {\"tool\": \"add_shopping_item\", \"args\": {\"name\": \"pao\"}}" }

\* what the model may answer to the second call
SecondResponses == {
    "",
    "Feito.",
    "Vou pesquisar." \o WebSearchLine,
    TerminalLine,
    "Vou ver.\n" \o StatesLine }

\* the tools whose result the view hands back to the model
SecondCallTools == {JStr("terminal_command"), JStr("homeassistant_get_states")}

ChatInit ==
    /\ ch_pc = "start"
    /\ ch_raw = ""
    /\ ch_action = None
    /\ ch_reply = ""
    /\ ch_used_search = FALSE
    /\ ch_calls = 0
    /\ ch_dispatched = <<>>
    /\ ch_action_result = "none"
    /\ ch_final_raw = ""
    /\ ch_status = "none"
    /\ ExtractOff
    /\ StreamOff
    /\ DispatchOff
    /\ SearchOff
    /\ MemoriesOff
    /\ ContextOff
    /\ RaceOff
    /\ TaskOff
    /\ VoiceOff

\* the exception reaches the except clause of ChatView.post: HTTP 500
ChatFails ==
    /\ ch_status' = "error"
    /\ ch_pc' = "closed"

\* the first call of the model raises: handle_user_message raises it again
FirstCallFails ==
    /\ ch_pc = "start"
    /\ ch_calls' = ch_calls + 1
    /\ ChatFails
    /\ UNCHANGED <<ch_raw, ch_action, ch_reply, ch_used_search, ch_dispatched,
                   ch_action_result, ch_final_raw, non_ch_vars>>

\* the first call of the model answers: handle_user_message parses the
\* response and returns, raises or goes on to the search; on its return the
\* view goes on to dispatch_tool when there is an action
FirstCall(raw_response) ==
    /\ ch_pc = "start"
    /\ ch_calls' = ch_calls + 1
    /\ ch_raw' = raw_response
    /\ LET r == first_pass(raw_response)
       IN  /\ ch_action' = r.action
           /\ ch_reply' = r.reply
           /\ IF r.next = "raise" THEN ChatFails
              ELSE /\ ch_status' = ch_status
                   /\ ch_pc' = IF r.next = "search" THEN "search"
                               ELSE IF is_true(r.action) THEN "dispatch"
                               ELSE "respond"
    /\ UNCHANGED <<ch_used_search, ch_dispatched, ch_action_result, ch_final_raw, non_ch_vars>>

\* FirstCall's counterpart for the second model call of the view: the second
\* response is parsed and a directive in it is dispatched like the first one
ViewSecondCall_Reparsed(final_raw) ==
    /\ ch_pc = "view_second_call"
    /\ ch_calls' = ch_calls + 1
    /\ ch_final_raw' = final_raw
    /\ ch_reply' = strip_action_line(final_raw)
    /\ ch_action' = parse_action(final_raw)
    /\ ch_pc' = IF is_true(ch_action') THEN "dispatch" ELSE "respond"
    /\ UNCHANGED <<ch_raw, ch_used_search, ch_dispatched, ch_action_result, ch_status,
                   non_ch_vars>>

\* handle_user_message, web_search: the search is made, the model is called a
\* second time, and the reply is its response without the action lines
SearchSecondCall(final_raw) ==
    /\ ch_pc = "search"
    /\ ch_calls' = ch_calls + 1
    /\ ch_final_raw' = final_raw
    /\ ch_reply' = strip_action_line(final_raw)
    /\ ch_action' = None
    /\ ch_used_search' = TRUE
    /\ ch_pc' = "respond"
    /\ UNCHANGED <<ch_raw, ch_dispatched, ch_action_result, ch_status, non_ch_vars>>

\* the second call of handle_user_message raises
SearchSecondCallFails ==
    /\ ch_pc = "search"
    /\ ch_calls' = ch_calls + 1
    /\ ChatFails
    /\ UNCHANGED <<ch_raw, ch_action, ch_reply, ch_used_search, ch_dispatched,
                   ch_action_result, ch_final_raw, non_ch_vars>>

\* the view hands the action to dispatch_tool; the result of terminal_command
\* and of homeassistant_get_states, success or failure, goes back to the model
Dispatch(success) ==
    /\ ch_pc = "dispatch"
    /\ ch_action_result' = IF success THEN "success" ELSE "failure"
    /\ ch_dispatched' = Append(ch_dispatched, dict_get(ch_action, "tool", None))
    /\ ch_pc' = IF dict_get(ch_action, "tool", None) \in SecondCallTools
                THEN "view_second_call" ELSE "respond"
    /\ UNCHANGED <<ch_raw, ch_action, ch_reply, ch_used_search, ch_calls, ch_final_raw,
                   ch_status, non_ch_vars>>

\* the second call of the view: the reply is the response without the action
\* lines, and the action is cleared
ViewSecondCall(final_raw) ==
    /\ ch_pc = "view_second_call"
    /\ ch_calls' = ch_calls + 1
    /\ ch_final_raw' = final_raw
    /\ ch_reply' = strip_action_line(final_raw)
    /\ ch_action' = None
    /\ ch_pc' = "respond"
    /\ UNCHANGED <<ch_raw, ch_used_search, ch_dispatched, ch_action_result, ch_status,
                   non_ch_vars>>

\* the second call of the view raises
ViewSecondCallFails ==
    /\ ch_pc = "view_second_call"
    /\ ch_calls' = ch_calls + 1
    /\ ChatFails
    /\ UNCHANGED <<ch_raw, ch_action, ch_reply, ch_used_search, ch_dispatched,
                   ch_action_result, ch_final_raw, non_ch_vars>>

\* the conversation is stored and the response is sent
Respond ==
    /\ ch_pc = "respond"
    /\ ch_status' = "ok"
    /\ ch_pc' = "closed"
    /\ UNCHANGED <<ch_raw, ch_action, ch_reply, ch_used_search, ch_calls, ch_dispatched,
                   ch_action_result, ch_final_raw, non_ch_vars>>

\* storing the conversation raises
RespondFails ==
    /\ ch_pc = "respond"
    /\ ChatFails
    /\ UNCHANGED <<ch_raw, ch_action, ch_reply, ch_used_search, ch_calls, ch_dispatched,
                   ch_action_result, ch_final_raw, non_ch_vars>>

ChatNext ==
    \/ FirstCallFails
    \/ \E raw_response \in FirstResponses : FirstCall(raw_response)
    \/ \E final_raw \in SecondResponses : SearchSecondCall(final_raw)
    \/ SearchSecondCallFails
    \/ \E success \in BOOLEAN : Dispatch(success)
    \/ \E final_raw \in SecondResponses : ViewSecondCall(final_raw)
    \/ ViewSecondCallFails
    \/ Respond
    \/ RespondFails

SpecChat == ChatInit /\ [][ChatNext]_vars

\* C13: a turn of the non-streaming chat path calls the model at most twice
C13_AtMostTwoModelCalls == ch_calls <= 2

\* C13, a turn whose second response carries a directive: the turn has ended
\* after two calls and one dispatch
C13_DirectiveInSecondResponse ==
    /\ ch_pc = "closed"
    /\ ch_status = "ok"
    /\ ch_calls = 2
    /\ is_true(parse_action(ch_final_raw))
    /\ Len(ch_dispatched) <= 1

(***************************************************************************)
(* dispatch_tool (services/tool_dispatcher.py): one call, with the args    *)
(* value of the directive, a database that works or raises, and a remote   *)
(* service that answers or fails                                           *)
(***************************************************************************)

\* a result dict with success and message, and an exception leaving the call
Success(message) == [outcome |-> "success", message |-> message]
Failure(message) == [outcome |-> "failure", message |-> message]
Raised(error) == [outcome |-> "raised", message |-> error]

\* args.get(...) works on a dict only
is_dict(v) == v.k = "obj"
is_str(v) == v.k = "str"

\* datetime.fromisoformat accepts the text
IsoTexts == {"2026-11-02T10:00:00", "2026-11-02T10:00:00+00:00"}
fromisoformat_ok(s) == s \in IsoTexts

\* args[key].replace('Z', '+00:00') parses as a datetime
datetime_ok(args, key) ==
    /\ key \in DOMAIN args.v
    /\ is_str(args.v[key])
    /\ fromisoformat_ok(replace(args.v[key].v, "Z", "+00:00"))

\* the tools that create a row from args.get(...) inside one try
create_row(args, storage, what) ==
    IF ~is_dict(args) THEN Failure("Error " \o what \o ": no attribute get")
    ELSE IF storage = "error" THEN Failure("Error " \o what \o ": storage")
    ELSE Success("Added")

add_shopping_item(args, storage) == create_row(args, storage, "adding item")

save_note(args, storage) == create_row(args, storage, "saving note")

\* the query runs outside any try
show_shopping_list(storage) ==
    IF storage = "error" THEN Raised("storage") ELSE Success("Shopping list retrieved")

show_todo_list(storage) ==
    IF storage = "error" THEN Raised("storage") ELSE Success("Todo list retrieved")

\* a date that does not parse is replaced by today
show_agenda(args, storage) ==
    IF ~is_dict(args) THEN Failure("Error retrieving agenda: no attribute get")
    ELSE IF storage = "error" THEN Failure("Error retrieving agenda: storage")
    ELSE Success("Agenda retrieved")

add_agenda_event(args, storage) ==
    IF ~is_dict(args) THEN Failure("Error adding event: not subscriptable")
    ELSE IF ~datetime_ok(args, "start_datetime") THEN Failure("Error adding event: start_datetime")
    ELSE IF is_true(dict_get(args, "end_datetime", None)) /\ ~datetime_ok(args, "end_datetime")
        THEN Failure("Error adding event: end_datetime")
    ELSE IF storage = "error" THEN Failure("Error adding event: storage")
    ELSE Success("Added event")

\* a due_date text that does not parse is ignored; one that is no text is not
add_todo_item(args, storage) ==
    IF ~is_dict(args) THEN Failure("Error adding todo: no attribute get")
    ELSE IF is_true(dict_get(args, "due_date", None)) /\ ~is_str(args.v["due_date"])
        THEN Failure("Error adding todo: no attribute replace")
    ELSE IF storage = "error" THEN Failure("Error adding todo: storage")
    ELSE Success("Added")

homeassistant_call_service(args, remote) ==
    IF ~is_dict(args) THEN Failure("Error calling Home Assistant: no attribute get")
    ELSE IF /\ dict_get(args, "domain", None) = JStr("climate")
            /\ dict_get(args, "service", None) = JStr("turn_on")
            /\ ~is_dict(dict_get(args, "data", JObj(<<>>)))
        THEN Failure("Error calling Home Assistant: no attribute get")
    ELSE IF remote = "error" THEN Failure("Error calling Home Assistant: remote")
    ELSE Success("Service called")

homeassistant_get_states(args, remote) ==
    IF remote = "error" THEN Failure("Error getting Home Assistant states: remote")
    ELSE Success("States retrieved")

\* args.get('command', '').strip() runs outside any try; execute_terminal_command
\* turns every failure of the Terminal API into a result
terminal_command(args, remote) ==
    IF ~is_dict(args) THEN Raised("AttributeError: no attribute get")
    ELSE IF ~is_str(dict_get(args, "command", JStr(""))) THEN Raised("AttributeError: no attribute strip")
    ELSE IF strip(dict_get(args, "command", JStr("")).v) = "" THEN Failure("Command is required")
    ELSE IF remote = "error" THEN Failure("Error connecting to Terminal API")
    ELSE Success("Command executed successfully")

dispatch_tool(tool_name, args, storage, remote) ==
    CASE tool_name = JStr("add_shopping_item") -> add_shopping_item(args, storage)
      [] tool_name = JStr("show_shopping_list") -> show_shopping_list(storage)
      [] tool_name = JStr("add_agenda_event") -> add_agenda_event(args, storage)
      [] tool_name = JStr("show_agenda") -> show_agenda(args, storage)
      [] tool_name = JStr("save_note") -> save_note(args, storage)
      [] tool_name = JStr("add_todo_item") -> add_todo_item(args, storage)
      [] tool_name = JStr("show_todo_list") -> show_todo_list(storage)
      [] tool_name = JStr("homeassistant_call_service") -> homeassistant_call_service(args, remote)
      [] tool_name = JStr("homeassistant_get_states") -> homeassistant_get_states(args, remote)
      [] tool_name = JStr("terminal_command") -> terminal_command(args, remote)
      [] tool_name = JStr("web_search") -> Failure("Web search should be handled asynchronously")
      [] OTHER -> Failure("Unknown tool")

\* the tools that use the database, and the tools that use a remote service
StorageTools == {"add_shopping_item", "show_shopping_list", "add_agenda_event", "show_agenda",
                 "save_note", "add_todo_item", "show_todo_list"}
RemoteTools == {"homeassistant_call_service", "homeassistant_get_states", "terminal_command"}
ToolNames == {JStr(t) : t \in StorageTools \cup RemoteTools \cup {"web_search", "voar"}}
                \cup {JLit("null")}

\* the values a directive can carry under "args"
ArgsValues == {
    JObj(<<>>),
    JLit("null"),
    JStr("ls"),
    JArr(<<JStr("ls")>>),
    JObj("command" :> JStr("ls")),
    JObj("command" :> JStr("  ")),
    JObj("command" :> JArr(<<JStr("ls"), JStr("-l")>>)),
    JObj("name" :> JStr("pao")),
    JObj("text" :> JStr("x")),
    JObj(("title" :> JStr("x")) @@ ("start_datetime" :> JStr("2026-11-02T10:00:00Z"))),
    JObj(("title" :> JStr("x")) @@ ("start_datetime" :> JStr("amanha"))),
    JObj(("title" :> JStr("x")) @@ ("due_date" :> JArr(<<>>))),
    JObj(("domain" :> JStr("climate")) @@ ("service" :> JStr("turn_on")) @@ ("data" :> JStr("x"))),
    JObj(("domain" :> JStr("light")) @@ ("service" :> JStr("turn_on"))
         @@ ("data" :> JObj("entity_id" :> JStr("light.sala")))) }

DispatchInit ==
    /\ dt_pc = "ready"
    /\ dt_tool \in ToolNames
    /\ dt_args \in ArgsValues
    /\ dt_storage \in {"ok", "error"}
    /\ dt_remote \in {"ok", "error"}
    /\ dt_result = [outcome |-> "none", message |-> ""]
    /\ ExtractOff
    /\ StreamOff
    /\ ChatOff
    /\ SearchOff
    /\ MemoriesOff
    /\ ContextOff
    /\ RaceOff
    /\ TaskOff
    /\ VoiceOff

DispatchTool ==
    /\ dt_pc = "ready"
    /\ dt_result' = dispatch_tool(dt_tool, dt_args, dt_storage, dt_remote)
    /\ dt_pc' = "done"
    /\ UNCHANGED <<dt_tool, dt_args, dt_storage, dt_remote, non_dt_vars>>

DispatchNext == DispatchTool

SpecDispatch == DispatchInit /\ [][DispatchNext]_vars

\* the collaborator the tool of the call uses has failed
CollaboratorFailed ==
    \/ dt_storage = "error" /\ \E t \in StorageTools : dt_tool = JStr(t)
    \/ dt_remote = "error" /\ \E t \in RemoteTools : dt_tool = JStr(t)

\* C14: whatever the tool and the args, no exception leaves dispatch_tool, and
\* a failure of the collaborator gives a result with success = false and a message
C14_FailuresBecomeResults ==
    dt_pc = "done"
        => /\ dt_result.outcome # "raised"
           /\ CollaboratorFailed => (dt_result.outcome = "failure" /\ dt_result.message # "")

\* C14, show_shopping_list with a database that raises: the exception leaves
\* dispatch_tool
C14_ShoppingListRaises ==
    /\ dt_pc = "done"
    /\ dt_tool = JStr("show_shopping_list")
    /\ dt_storage = "error"
    /\ dt_result.outcome = "raised"

(***************************************************************************)
(* search_web (services/web_search_service.py): the calls of one process,  *)
(* one after the other, with the result cache, the primary provider        *)
(* (SearXNG), the retry loop and the fallback provider (DuckDuckGo)        *)
(***************************************************************************)

CACHE_TTL_SECONDS == 60 * 5

\* str.lower() of one character, and of a string
LowerChar(c) ==
    LET I == {i \in 0..(Len(UpperChars) - 1) : At(UpperChars, i) = c}
    IN  IF I = {} THEN c ELSE At(LowerChars, CHOOSE i \in I : TRUE)

RECURSIVE lower(_)
lower(s) ==
    IF s = "" THEN ""
    ELSE IF Len(s) = 1 THEN LowerChar(s)
    ELSE lower(Slice(s, 0, Len(s) \div 2)) \o lower(SliceFrom(s, Len(s) \div 2))

\* key = (query, max_results)
cache_key(query, max_results) == <<query, max_results>>

\* an entry that expires as soon as its age reaches the TTL
expired_at_ttl(now, ts) == now - ts >= CACHE_TTL_SECONDS

\* time.time() - ts > CACHE_TTL_SECONDS
expired(now, ts) == now - ts > CACHE_TTL_SECONDS

\* _get_from_cache: the results of an entry that has not expired, else None
\* (an expired entry is popped by the caller of this operator, in Call)
_get_from_cache(cache, now, query, max_results) ==
    LET key == cache_key(query, max_results)
    IN  IF key \notin DOMAIN cache THEN None
        ELSE IF expired(now, cache[key].ts) THEN None
        ELSE JArr(cache[key].results)

\* _SEARCH_CACHE.pop(key, None) on an expired entry
pop_expired(cache, now, query, max_results) ==
    LET key == cache_key(query, max_results)
    IN  IF key \in DOMAIN cache /\ expired(now, cache[key].ts)
        THEN [k \in DOMAIN cache \ {key} |-> cache[k]]
        ELSE cache

\* _set_cache
_set_cache(cache, now, query, max_results, results) ==
    LET key == cache_key(query, max_results)
    IN  [k \in DOMAIN cache \cup {key} |->
            IF k = key THEN [ts |-> now, results |-> results] ELSE cache[k]]

\* what SESSION.get gives: an exception, or a response with its status code,
\* content type and body text
Response(raises, status_code, content_type, text) ==
    [raises |-> raises, status_code |-> status_code, content_type |-> content_type, text |-> text]

Responses == {
    Response("Timeout", 0, "", ""),
    Response("ConnectionError", 0, "", ""),
    Response("", 429, "text/plain", "Too Many Requests"),
    Response("", 500, "text/html", "<h1>Internal Server Error</h1>"),
    Response("", 200, "application/json", ""),
    Response("", 200, "application/json", " \n"),
    Response("", 200, "text/html; charset=utf-8", "<html></html>"),
    Response("", 200, "application/json", "{\"results\": [{\"title\""),
    Response("", 200, "application/json", "[]"),
    Response("", 200, "application/json", "{\"results\": null}"),
    Response("", 200, "application/json", "{\"results\": [\"a\"]}"),
    Response("", 200, "Application/JSON", "{\"results\": []}"),
    Response("", 200, "application/json", "{\"results\":[{\"title\":\"a\"},{\"title\":\"b\"},{\"title\":\"c\"}]}"),
    Response("", 200, "application/json; charset=utf-8",
             "{\"results\":[{\"title\":\"z\",\"content\":\"s\"},{\"url\":\"u\",\"engine\":\"e\"}]}") }

\* one entry of the returned list
Result(title, url, snippet, engine) ==
    [title |-> title, url |-> url, snippet |-> snippet, engine |-> engine]

\* the dict built from one item of the primary provider
primary_result(item) ==
    Result(dict_get(item, "title", JStr("")), dict_get(item, "url", JStr("")),
           dict_get(item, "content", JStr("")), dict_get(item, "engine", JStr("")))

head(q, n) == IF n >= Len(q) THEN q ELSE SubSeq(q, 1, n)

\* a cut that keeps every item
trim_none(raw_results, max_results) == raw_results

\* raw_results[:max_results]
trim(raw_results, max_results) == head(raw_results, max_results)

\* data.get("results", []) of a body that has results: the ranking of the
\* primary provider
ranking(text) ==
    LET r == json_loads(text)
    IN  IF r.ok /\ r.val.k = "obj" /\ dict_get(r.val, "results", JArr(<<>>)).k = "arr"
        THEN dict_get(r.val, "results", JArr(<<>>)).v
        ELSE <<>>

Results(results) == [kind |-> "results", results |-> results]
Failed(class) == [kind |-> class, results |-> <<>>]

\* the lines after a body with JSON content type was received
parse_results(text, max_results) ==
    LET r == json_loads(text)
    IN  IF ~r.ok THEN Failed("json_error")
        ELSE IF r.val.k # "obj" THEN Failed("unexpected")
        ELSE LET raw_results == dict_get(r.val, "results", JArr(<<>>))
             IN  IF raw_results = JStr("") THEN Results(<<>>)
                 ELSE IF raw_results.k # "arr" THEN Failed("unexpected")
                 ELSE LET items == trim(raw_results.v, max_results)
                      IN  IF \E i \in 1..Len(items) : items[i].k # "obj" THEN Failed("unexpected")
                          ELSE Results([i \in 1..Len(items) |-> primary_result(items[i])])

\* one pass of the body of the retry loop, up to the point where it has results
\* or knows how the attempt failed
primary_attempt(response, max_results) ==
    IF response.raises = "Timeout" THEN Failed("timeout")
    ELSE IF response.raises # "" THEN Failed("request_error")
    ELSE IF response.status_code = 429 THEN Failed("rate_limited")
    ELSE IF response.status_code >= 400 THEN Failed("request_error")
    ELSE IF strip(response.text) = "" THEN Failed("empty_body")
    ELSE IF ~contains(lower(response.content_type), "application/json") THEN Failed("non_json")
    ELSE parse_results(response.text, max_results)

\* a loop that gives up after the last attempt when it was rate limited
after_failure_gives_up(class, attempt, retries) ==
    IF attempt # retries - 1 THEN "sleep"
    ELSE IF class \in {"timeout", "rate_limited"} THEN "give_up"
    ELSE "fallback"

\* what the loop does after a failed attempt: "sleep" and go on, "fallback", or
\* "give_up" (return [])
after_failure(class, attempt, retries) ==
    IF attempt # retries - 1 THEN "sleep"
    ELSE IF class = "timeout" THEN "give_up"
    ELSE "fallback"

\* a wait of the same length before every retry
backoff_fixed(attempt) == 1

\* time.sleep(2 ** attempt)
backoff(attempt) == 2 ^ attempt

\* what DDGS().text gives: an exception, or items
FallbackOutcomes == {
    [raises |-> "ImportError", items |-> <<>>],
    [raises |-> "RatelimitException", items |-> <<>>],
    [raises |-> "", items |-> <<>>],
    [raises |-> "", items |-> <<JObj(("title" :> JStr("d")) @@ ("href" :> JStr("h")) @@ ("body" :> JStr("b"))),
                                JObj("title" :> JStr("e"))>>] }

\* ddgs.text(query, max_results=max_results): the first max_results items of
\* the ranking of the provider
ddgs_text(outcome, max_results) == head(outcome.items, max_results)

\* the dict built from one item of the fallback provider
fallback_result(item) ==
    Result(dict_get(item, "title", JStr("")), dict_get(item, "href", JStr("")),
           dict_get(item, "body", JStr("")), JStr("duckduckgo"))

search_web_fallback(outcome, max_results) ==
    IF outcome.raises # "" THEN <<>>
    ELSE [i \in 1..Len(ddgs_text(outcome, max_results)) |->
            fallback_result(ddgs_text(outcome, max_results)[i])]

\* bounds of the exploration: the calls of one run, the retries of one call,
\* the steps of the clock
MaxCalls == 2
MaxRetries == 2
MaxTicks == 3

\* the clock moves by half the time an entry lives
TickSeconds == CACHE_TTL_SECONDS \div 2

\* the (query, max_results) of the calls
Searches == {<<"weather lisbon", 2>>, <<"weather lisbon", 1>>, <<"tempo lisboa", 2>>}

\* primary_attempt of every response, for every max_results of a call
PrimaryAttempts ==
    [response \in Responses |-> [search \in Searches |-> primary_attempt(response, search[2])]]

\* ranking of every body
Rankings == [text \in {response.text : response \in Responses} |-> ranking(text)]

SearchInit ==
    /\ sw_pc = "idle"
    /\ sw_query = ""
    /\ sw_max_results = 0
    /\ sw_retries = 0
    /\ sw_attempt = 0
    /\ sw_cache = <<>>
    /\ sw_now = 0
    /\ sw_ret = <<>>
    /\ sw_source = "none"
    /\ sw_trace = <<>>
    /\ sw_outcomes = <<>>
    /\ sw_calls = 0
    /\ sw_served = <<>>
    /\ sw_prior = None
    /\ sw_ranked = [body |-> "", items |-> <<>>]
    /\ ExtractOff
    /\ StreamOff
    /\ ChatOff
    /\ DispatchOff
    /\ MemoriesOff
    /\ ContextOff
    /\ RaceOff
    /\ TaskOff
    /\ VoiceOff

\* time passes between two calls
Tick ==
    /\ sw_pc \in {"idle", "returned"}
    /\ sw_now + TickSeconds <= MaxTicks * TickSeconds
    /\ sw_now' = sw_now + TickSeconds
    /\ UNCHANGED <<sw_pc, sw_query, sw_max_results, sw_retries, sw_attempt, sw_cache, sw_ret,
                   sw_source, sw_trace, sw_outcomes, sw_calls, sw_served, sw_prior, sw_ranked,
                   non_sw_vars>>

\* search_web(query, max_results, retries) up to its first request: the cache
\* lookup, and the loop that has no pass when retries is not positive
Call(query, max_results, retries) ==
    /\ sw_pc \in {"idle", "returned"}
    /\ sw_calls < MaxCalls
    /\ sw_calls' = sw_calls + 1
    /\ sw_query' = query
    /\ sw_max_results' = max_results
    /\ sw_retries' = retries
    /\ sw_attempt' = 0
    /\ sw_trace' = <<>>
    /\ sw_outcomes' = <<>>
    /\ sw_prior' = IF cache_key(query, max_results) \in DOMAIN sw_served
                   THEN JObj([age |-> sw_now - sw_served[cache_key(query, max_results)].ts,
                              results |-> sw_served[cache_key(query, max_results)].results])
                   ELSE None
    /\ sw_cache' = pop_expired(sw_cache, sw_now, query, max_results)
    /\ LET cached == _get_from_cache(sw_cache, sw_now, query, max_results)
       IN  IF cached.k # "none"
           THEN /\ sw_ret' = cached.v
                /\ sw_source' = "cache"
                /\ sw_pc' = "returned"
           ELSE /\ sw_ret' = <<>>
                /\ sw_source' = "none"
                /\ sw_pc' = IF retries > 0 THEN "attempt" ELSE "returned"
    /\ sw_ranked' = [body |-> "", items |-> <<>>]
    /\ UNCHANGED <<sw_now, sw_served, non_sw_vars>>

\* one pass of the retry loop, with what SESSION.get gives
Attempt(response) ==
    /\ sw_pc = "attempt"
    /\ LET o == PrimaryAttempts[response][<<sw_query, sw_max_results>>]
           next == after_failure(o.kind, sw_attempt, sw_retries)
       IN  /\ sw_outcomes' = Append(sw_outcomes, o.kind)
           /\ IF o.kind = "results"
              THEN /\ sw_cache' = _set_cache(sw_cache, sw_now, sw_query, sw_max_results, o.results)
                   /\ sw_served' = _set_cache(sw_served, sw_now, sw_query, sw_max_results, o.results)
                   /\ sw_ret' = o.results
                   /\ sw_source' = "primary"
                   /\ sw_pc' = "returned"
                   /\ sw_trace' = Append(sw_trace, "primary")
                   /\ sw_ranked' = [body |-> response.text, items |-> <<>>]
                   /\ UNCHANGED <<sw_now, sw_attempt>>
              ELSE /\ sw_pc' = CASE next = "sleep" -> "attempt"
                                 [] next = "fallback" -> "fallback"
                                 [] next = "give_up" -> "returned"
                   /\ sw_now' = IF next = "sleep" THEN sw_now + backoff(sw_attempt) ELSE sw_now
                   /\ sw_attempt' = IF next = "sleep" THEN sw_attempt + 1 ELSE sw_attempt
                   /\ sw_trace' = IF next = "sleep" THEN sw_trace \o <<"primary", "sleep">>
                                  ELSE Append(sw_trace, "primary")
                   /\ UNCHANGED <<sw_cache, sw_served, sw_ret, sw_source, sw_ranked>>
    /\ UNCHANGED <<sw_query, sw_max_results, sw_retries, sw_calls, sw_prior, non_sw_vars>>

\* return search_web_fallback(query, max_results)
Fallback(outcome) ==
    /\ sw_pc = "fallback"
    /\ sw_ret' = search_web_fallback(outcome, sw_max_results)
    /\ sw_ranked' = [body |-> "", items |-> IF outcome.raises # "" THEN <<>> ELSE outcome.items]
    /\ sw_source' = "fallback"
    /\ sw_trace' = Append(sw_trace, "fallback")
    /\ sw_pc' = "returned"
    /\ UNCHANGED <<sw_query, sw_max_results, sw_retries, sw_attempt, sw_cache, sw_now,
                   sw_outcomes, sw_calls, sw_served, sw_prior, non_sw_vars>>

SearchNext ==
    \/ Tick
    \/ \E search \in Searches, retries \in 0..MaxRetries : Call(search[1], search[2], retries)
    \/ \E response \in Responses : Attempt(response)
    \/ \E outcome \in FallbackOutcomes : Fallback(outcome)

SpecSearch == SearchInit /\ [][SearchNext]_vars

\* the call has returned
Returned == sw_pc = "returned"

\* how many times the call did what
Count(trace, what) == Cardinality({i \in 1..Len(trace) : trace[i] = what})

\* C15: a call whose key got its results from the primary provider no longer
\* than the TTL before returns that list from the cache, with no request to
\* either provider; a call is served from the cache only when a list was obtained
\* for the same query and the same max_results
C15_CacheServesWithinTTL ==
    Returned =>
        /\ (sw_prior.k = "obj" /\ sw_prior.v.age <= CACHE_TTL_SECONDS)
                => /\ sw_source = "cache"
                   /\ sw_ret = sw_prior.v.results
                   /\ sw_trace = <<>>
        /\ sw_source = "cache" => sw_prior.k = "obj"

\* C15: a second call served from the cache when the entry is exactly as old as
\* the TTL, while the other max_results of the query has no entry
C15_ServedAtTTL ==
    /\ Returned
    /\ sw_source = "cache"
    /\ sw_prior.k = "obj"
    /\ sw_prior.v.age = CACHE_TTL_SECONDS
    /\ sw_ret # <<>>
    /\ sw_trace = <<>>
    /\ \E search \in Searches :
            /\ search[1] = sw_query
            /\ search[2] # sw_max_results
            /\ search \notin DOMAIN sw_cache

\* what a call does when every attempt is answered with 429
RateLimitedTrace(retries) ==
    [i \in 1..(2 * retries) |->
        IF i = 2 * retries THEN "fallback" ELSE IF i % 2 = 1 THEN "primary" ELSE "sleep"]

\* C16: a call with retries >= 1 that reached the primary provider and got 429
\* on every attempt made retries attempts with a sleep between two of them, then
\* the fallback once, and nothing after it
C16_RateLimitedThenFallbackOnce ==
    (/\ Returned
     /\ sw_retries >= 1
     /\ sw_source # "cache"
     /\ \A i \in 1..Len(sw_outcomes) : sw_outcomes[i] = "rate_limited")
        => /\ Len(sw_outcomes) = sw_retries
           /\ sw_trace = RateLimitedTrace(sw_retries)

\* C16: two attempts, both answered with 429
C16_TwoRateLimitedAttempts ==
    /\ Returned
    /\ sw_retries = MaxRetries
    /\ sw_outcomes = [i \in 1..MaxRetries |-> "rate_limited"]
    /\ sw_source = "fallback"
    /\ Count(sw_trace, "fallback") = 1

\* C17: the fallback is invoked at most once per call, and once when all the
\* primary attempts of the call have failed
C17_ExhaustedMeansOneFallback ==
    /\ Count(sw_trace, "fallback") <= 1
    /\ (/\ Returned
        /\ sw_outcomes # <<>>
        /\ \A i \in 1..Len(sw_outcomes) : sw_outcomes[i] # "results")
            => Count(sw_trace, "fallback") = 1

\* C17: the last attempt timed out, and the call returned [] without the fallback
C17_TimeoutSkipsFallback ==
    /\ Returned
    /\ sw_outcomes # <<>>
    /\ Len(sw_outcomes) = sw_retries
    /\ sw_outcomes[Len(sw_outcomes)] = "timeout"
    /\ Count(sw_trace, "fallback") = 0
    /\ sw_ret = <<>>

\* C18: results returned from the primary or the fallback provider are in the
\* cache under (query, max_results) when the call returns
C18_ReturnedResultsAreCached ==
    (Returned /\ (sw_source = "primary" \/ (sw_source = "fallback" /\ sw_ret # <<>>)))
        => /\ cache_key(sw_query, sw_max_results) \in DOMAIN sw_cache
           /\ sw_cache[cache_key(sw_query, sw_max_results)].results = sw_ret

\* C18: results of the fallback provider returned, and no entry for the key
C18_FallbackResultsNotCached ==
    /\ Returned
    /\ sw_source = "fallback"
    /\ sw_ret # <<>>
    /\ cache_key(sw_query, sw_max_results) \notin DOMAIN sw_cache

(***************************************************************************)
(* get_relevant_memories_cached (services/prompt_cache.py): the calls of   *)
(* one process, one after the other, with the cache, the trigger terms,    *)
(* the recent memories and the semantic search                             *)
(***************************************************************************)

TTL_MEMORIES == 60

memory_keywords == {
    "lembra", "lembraste", "disseste", "falaste", "mencionaste",
    "disse", "preferência", "gosto", "costume", "sempre",
    "antes", "último", "última", "passado", "ontem" }

\* any(keyword in message_lower for keyword in memory_keywords)
should_search(user_message) ==
    \E keyword \in memory_keywords : contains(lower(user_message), keyword)

\* a user object with its id (0 for an id that is not set), or None
User(id) == [k |-> "user", v |-> id]

\* not (not user or not user.id)
has_id(user) == user.k = "user" /\ user.v # 0

\* the messages of the calls, with hashlib.md5(user_message.encode()).hexdigest()[:8]
QueryHashes ==
    ("Que horas sao?" :> "dd9f709e") @@ ("o ultimo aviso" :> "dc4ff065") @@ ("" :> "d41d8cd9")
        @@ ("O que eu DISSE ontem?" :> "9b9a705f") @@ ("Os estudantes" :> "2265de28")

\* should_search of every message of the calls
ShouldSearch == [user_message \in DOMAIN QueryHashes |-> should_search(user_message)]

\* CACHE_KEY_MEMORIES.format(user_id=user.id, query_hash=query_hash)
memories_key(user, user_message) ==
    "prompt:memories:" \o ToString(user.v) \o ":" \o QueryHashes[user_message]

\* cache.get(key): the value of an entry that has not expired, else None
cache_get(cache, now, key) ==
    IF key \in DOMAIN cache /\ now < cache[key].expires THEN JArr(cache[key].value) ELSE None

\* cache.set(key, value, timeout)
cache_set(cache, now, key, value, timeout) ==
    [k \in DOMAIN cache \cup {key} |->
        IF k = key THEN [expires |-> now + timeout, value |-> value] ELSE cache[k]]

\* a Memory row
Memory(user_id, content, memory_type) ==
    [user |-> user_id, content |-> content, memory_type |-> memory_type]

\* the rows the database can hold, in order of creation
Rows == <<Memory(1, "gosta de cafe", "preference"), Memory(2, "mora em Lisboa", "fact"),
          Memory(1, "tem um cao", "fact"), Memory(1, "acorda cedo", "habit"),
          Memory(1, "nao come carne", "preference"), Memory(2, "trabalha de noite", "fact")>>

reversed(q) == [i \in 1..Len(q) |-> q[Len(q) + 1 - i]]

min(a, b) == IF a < b THEN a ELSE b

\* get_recent_memories: the rows of the user, the newest first, limit of them
get_recent_memories(rows, user, limit) ==
    head(reversed(SelectSeq(rows, LAMBDA row : row.user = user.v)), limit)

\* search_memories: it fails, or gives rows of the user by relevance, limit of them
SearchOutcomes == {"fails", "finds", "finds_none"}

search_memories(rows, user, limit, outcome) ==
    IF outcome = "finds" THEN head(SelectSeq(rows, LAMBDA row : row.user = user.v), limit) ELSE <<>>

\* [{'content': mem.content, 'type': mem.memory_type} for mem in ...]
memory_dicts(memories) ==
    [i \in 1..Len(memories) |-> [content |-> memories[i].content, type |-> memories[i].memory_type]]

\* what one call gives: the list returned, the cache after it, what it did
Done(ret, cache, log) == [ret |-> ret, cache |-> cache, log |-> log]

\* a call without trigger terms that keeps its list in the per-query tier
recent_branch_cached(cache, now, rows, user, user_message, limit) ==
    Done(memory_dicts(get_recent_memories(rows, user, min(limit, 3))),
         cache_set(cache, now, memories_key(user, user_message),
                   memory_dicts(get_recent_memories(rows, user, min(limit, 3))), TTL_MEMORIES),
         <<"recent", "set">>)

\* the call of a message without trigger terms
recent_branch(cache, now, rows, user, user_message, limit) ==
    Done(memory_dicts(get_recent_memories(rows, user, min(limit, 3))), cache, <<"recent">>)

\* a failed search that leaves the cache as it is
store_nothing(cache, now, key) == cache

\* cache.set(cache_key, [], TTL_MEMORIES) after a failed search
store_failure(cache, now, key) == cache_set(cache, now, key, <<>>, TTL_MEMORIES)

\* the call of a message with a trigger term
search_branch(cache, now, rows, user, user_message, limit, outcome) ==
    LET cached == cache_get(cache, now, memories_key(user, user_message))
    IN  IF cached.k # "none" THEN Done(cached.v, cache, <<"get">>)
        ELSE IF outcome = "fails"
            THEN Done(<<>>, store_failure(cache, now, memories_key(user, user_message)),
                      <<"get", "search", "set">>)
        ELSE Done(memory_dicts(search_memories(rows, user, limit, outcome)),
                  cache_set(cache, now, memories_key(user, user_message),
                            memory_dicts(search_memories(rows, user, limit, outcome)), TTL_MEMORIES),
                  <<"get", "search", "set">>)

get_relevant_memories_cached(cache, now, rows, user, user_message, limit, outcome) ==
    IF ~has_id(user) THEN Done(<<>>, cache, <<>>)
    ELSE IF ~ShouldSearch[user_message] THEN recent_branch(cache, now, rows, user, user_message, limit)
    ELSE search_branch(cache, now, rows, user, user_message, limit, outcome)

\* bounds of the exploration: the calls of one run, the steps of the clock, the
\* rows in the database
MaxMemoryCalls == 2
MaxMemoryTicks == 3
MaxRows == 5

\* the rows the database starts with
StartRows == 4

\* the clock moves by half the time an entry lives
MemoryTickSeconds == TTL_MEMORIES \div 2

Users == {None, User(0), User(1), User(2)}
Messages == DOMAIN QueryHashes
Limits == {2, 5}

MemoriesInit ==
    /\ mc_cache = <<>>
    /\ mc_now = 0
    /\ mc_rows = head(Rows, StartRows)
    /\ mc_user = None
    /\ mc_message = ""
    /\ mc_ret = <<>>
    /\ mc_log = <<>>
    /\ mc_calls = 0
    /\ mc_failed = <<>>
    /\ mc_prior = None
    /\ ExtractOff
    /\ StreamOff
    /\ ChatOff
    /\ DispatchOff
    /\ SearchOff
    /\ ContextOff
    /\ RaceOff
    /\ TaskOff
    /\ VoiceOff

\* time passes between two calls
MemoriesTick ==
    /\ mc_now + MemoryTickSeconds <= MaxMemoryTicks * MemoryTickSeconds
    /\ mc_now' = mc_now + MemoryTickSeconds
    /\ UNCHANGED <<mc_cache, mc_rows, mc_user, mc_message, mc_ret, mc_log, mc_calls, mc_failed,
                   mc_prior, non_mc_vars>>

\* a Memory row is created between two calls
AddMemory ==
    /\ Len(mc_rows) < MaxRows
    /\ Len(mc_rows) < Len(Rows)
    /\ mc_rows' = Append(mc_rows, Rows[Len(mc_rows) + 1])
    /\ UNCHANGED <<mc_cache, mc_now, mc_user, mc_message, mc_ret, mc_log, mc_calls, mc_failed,
                   mc_prior, non_mc_vars>>

\* the failures on record after a call: a failed search is recorded, a search
\* that succeeded clears the record of its key
failures_after(failed, now, key, log, outcome) ==
    IF Cardinality({i \in 1..Len(log) : log[i] = "search"}) = 0 THEN failed
    ELSE IF outcome = "fails" THEN [k \in DOMAIN failed \cup {key} |-> IF k = key THEN now ELSE failed[k]]
    ELSE [k \in DOMAIN failed \ {key} |-> failed[k]]

\* get_relevant_memories_cached(user, user_message, limit), with what
\* search_memories would do if it were called
GetRelevantMemories(user, user_message, limit, outcome) ==
    /\ mc_calls < MaxMemoryCalls
    /\ mc_calls' = mc_calls + 1
    /\ mc_user' = user
    /\ mc_message' = user_message
    /\ LET r == get_relevant_memories_cached(mc_cache, mc_now, mc_rows, user, user_message, limit, outcome)
       IN  /\ mc_ret' = r.ret
           /\ mc_cache' = r.cache
           /\ mc_log' = r.log
           /\ mc_failed' = IF has_id(user)
                           THEN failures_after(mc_failed, mc_now, memories_key(user, user_message), r.log, outcome)
                           ELSE mc_failed
    /\ mc_prior' = IF has_id(user) /\ memories_key(user, user_message) \in DOMAIN mc_failed
                   THEN JObj([age |-> mc_now - mc_failed[memories_key(user, user_message)]])
                   ELSE None
    /\ UNCHANGED <<mc_now, mc_rows, non_mc_vars>>

MemoriesNext ==
    \/ MemoriesTick
    \/ AddMemory
    \/ \E user \in Users, user_message \in Messages, limit \in Limits, outcome \in SearchOutcomes :
            GetRelevantMemories(user, user_message, limit, outcome)

SpecMemories == MemoriesInit /\ [][MemoriesNext]_vars

\* the last call was made for a user with an id and a message with a trigger term
GatedIn == mc_calls > 0 /\ has_id(mc_user) /\ ShouldSearch[mc_message]

\* how many times the last call invoked search_memories
Searched == Count(mc_log, "search")

\* the last call invoked search_memories, and it failed
SearchFailed ==
    /\ Searched > 0
    /\ memories_key(mc_user, mc_message) \in DOMAIN mc_failed

\* C19: a call whose search fails stores the empty list under the key of
\* (user, hash of the message) for TTL_MEMORIES and returns it; a later call for
\* the key made before the TTL has elapsed returns the empty list without a
\* search, and a call made after it has elapsed searches once
C19_FailureCachedForTTL ==
    GatedIn =>
        /\ SearchFailed
            => /\ mc_ret = <<>>
               /\ memories_key(mc_user, mc_message) \in DOMAIN mc_cache
               /\ mc_cache[memories_key(mc_user, mc_message)]
                    = [expires |-> mc_failed[memories_key(mc_user, mc_message)] + TTL_MEMORIES, value |-> <<>>]
        /\ (mc_prior.k = "obj" /\ mc_prior.v.age < TTL_MEMORIES)
            => /\ mc_ret = <<>>
               /\ Searched = 0
        /\ (mc_prior.k = "obj" /\ mc_prior.v.age > TTL_MEMORIES)
            => Searched = 1

\* C19: a call served the empty list of a failed search half a TTL before, for a
\* user who has memories
C19_EmptyServedWithinTTL ==
    /\ GatedIn
    /\ mc_prior.k = "obj"
    /\ mc_prior.v.age = MemoryTickSeconds
    /\ mc_ret = <<>>
    /\ mc_log = <<"get">>
    /\ get_recent_memories(mc_rows, mc_user, 1) # <<>>

\* C20: a call for a message without trigger terms does no search, no read and
\* no write of the cache, and leaves the cache as it was; for a user with an id
\* it computes the recent memories anew
C20_GatedOutBypassesCache ==
    [][(mc_calls' = mc_calls + 1 /\ ~ShouldSearch[mc_message'])
            => /\ mc_cache' = mc_cache
               /\ \A i \in 1..Len(mc_log') : mc_log'[i] \notin {"get", "set", "search"}
               /\ has_id(mc_user')
                    => /\ mc_log' = <<"recent">>
                       /\ \E limit \in Limits :
                            mc_ret' = memory_dicts(get_recent_memories(mc_rows, mc_user', min(limit, 3)))]_vars

\* C20: a second call without trigger terms, made while the cache holds an
\* entry, that returned the three most recent memories of the user
C20_RecentComputedBesideCache ==
    /\ mc_calls = MaxMemoryCalls
    /\ has_id(mc_user)
    /\ ~ShouldSearch[mc_message]
    /\ mc_log = <<"recent">>
    /\ Len(mc_ret) = 3
    /\ mc_cache # <<>>

\* ---------------------------------------------------------------------------
\* The static and the per-user tier of the prompt cache: get_base_system_prompt_cached,
\* get_user_context_cached and invalidate_user_context_cache, on the Django cache
\* ---------------------------------------------------------------------------

TTL_BASE_PROMPT == 3600
TTL_USER_CONTEXT == 600

CACHE_KEY_BASE_PROMPT == "prompt:base"

\* CACHE_KEY_USER_CONTEXT.format(user_id=user_id)
user_context_key(user_id) == "prompt:user_context:" \o ToString(user_id)

\* cache.get(key) of a key that holds a str
cache_get_str(cache, now, key) ==
    IF key \in DOMAIN cache /\ now < cache[key].expires THEN JStr(cache[key].value) ELSE None

\* a delete that leaves the entry where it is
cache_keep(cache, key) == cache

\* cache.delete(key)
cache_delete(cache, key) == [k \in DOMAIN cache \ {key} |-> cache[k]]

\* the opening of the literal get_base_system_prompt returns
get_base_system_prompt == "Tu és o Jarvas, assistente pessoal do utilizador Marco."

\* a hit test that takes every entry the cache holds
is_not_none(cached) == cached.k # "none"

\* "if cached:" on what cache.get gave: an entry, and not the empty str
is_hit(cached) == cached.k # "none" /\ cached.v # ""

\* a DeviceAlias row of the user
DeviceAlias(entity_id, alias, area) == [entity_id |-> entity_id, alias |-> alias, area |-> area]

\* what the lookups of get_homeassistant_devices_info find: the enabled
\* HomeAssistantConfig ("none", "raises" when the query raises, "enabled"), the
\* request of get_homeassistant_states ("raises", "failed" when no base_url is
\* set, "ok") with the entity ids of its states, and the DeviceAlias rows with
\* whether reading them works ("ok", "raises")
World(config, states, entities, aliases, alias_lookup) ==
    [config |-> config, states |-> states, entities |-> entities, aliases |-> aliases,
     alias_lookup |-> alias_lookup]

Worlds ==
    << World("none", "ok", <<>>, <<>>, "ok"),
       World("raises", "ok", <<>>, <<>>, "ok"),
       World("enabled", "raises", <<>>, <<>>, "ok"),
       World("enabled", "failed", <<>>, <<>>, "ok"),
       World("enabled", "ok", <<"light.sala", "climate.sala_de_estar">>, <<>>, "ok"),
       World("enabled", "ok", <<"climate.quarto", "climate.sala_de_estar">>,
             <<DeviceAlias("climate.quarto", "AC do quarto", "Quarto"),
               DeviceAlias("climate.sala_de_estar", "AC da sala", "")>>, "ok"),
       World("enabled", "ok", <<"climate.quarto">>, <<>>, "raises") >>

\* s.split('.')[-1]
last_segment(s) ==
    LET I == {i \in 0..(Len(s) - 1) : At(s, i) = "."}
    IN  IF I = {} THEN s ELSE SliceFrom(s, (CHOOSE i \in I : \A j \in I : j <= i) + 1)

IsLetter(c) == \E i \in 0..(Len(LowerChars) - 1) : c = At(LowerChars, i) \/ c = At(UpperChars, i)

\* s.title(): a letter after a letter in lower case, any other letter in upper case
title(s) ==
    LET F[i \in 0..Len(s)] ==
            IF i = 0 THEN ""
            ELSE F[i - 1] \o (IF i > 1 /\ IsLetter(At(s, i - 2))
                              THEN LowerChar(At(s, i - 1))
                              ELSE UpperChar(At(s, i - 1)))
    IN  F[Len(s)]

\* aliases.filter(entity_id=entity_id).first()
alias_of(aliases, entity_id) ==
    LET found == SelectSeq(aliases, LAMBDA a : a.entity_id = entity_id)
    IN  IF found = <<>> THEN None ELSE JObj(found[1])

\* the line of one climate device
device_info(aliases, entity_id) ==
    LET alias_obj == alias_of(aliases, entity_id)
        device_name == IF alias_obj.k = "obj" THEN alias_obj.v.alias
                       ELSE title(replace(last_segment(entity_id), "_", " "))
        area == IF alias_obj.k = "obj" THEN alias_obj.v.area ELSE ""
    IN  "- " \o device_name \o " (entity_id: " \o entity_id \o ")"
            \o (IF area # "" THEN " - Área: " \o area ELSE "")

\* the lines the inner try collects: none when get_homeassistant_states reports
\* no success (it does when its request raises), or when the first alias lookup
\* raises
alias_info(world) ==
    LET climate_devices == SelectSeq(world.entities, LAMBDA e : startswith(e, "climate."))
    IN  IF world.states # "ok" \/ world.alias_lookup = "raises" THEN <<>>
        ELSE [i \in 1..Len(climate_devices) |-> device_info(world.aliases, climate_devices[i])]

StaticDevices ==
    "\n\nHOME ASSISTANT - AR CONDICIONADOS DISPONÍVEIS:\n- Quarto (entity_id: climate.quarto)\n- Sala (entity_id: climate.sala)\n- Cozinha (entity_id: climate.cozinha)\n"

\* get_homeassistant_devices_info(user) for a user that is not None
get_homeassistant_devices_info(world) ==
    IF world.config = "raises" THEN ""
    ELSE IF world.config = "none" THEN ""
    ELSE IF alias_info(world) # <<>>
        THEN "\n\nHOME ASSISTANT - DISPOSITIVOS DISPONÍVEIS:\n" \o join_lines(alias_info(world)) \o "\n"
    ELSE StaticDevices

\* get_user_context_prompt(user)
get_user_context_prompt(user, world) ==
    IF user.k = "none" THEN "" ELSE get_homeassistant_devices_info(world)

\* a lookup the build of the context makes raises: the query of the
\* configuration, the request of the device states, or the query of an alias
lookup_raises(world) ==
    \/ world.config = "raises"
    \/ world.config = "enabled" /\ world.states = "raises"
    \/ /\ world.config = "enabled"
       /\ world.states = "ok"
       /\ world.alias_lookup = "raises"
       /\ \E i \in 1..Len(world.entities) : startswith(world.entities[i], "climate.")

\* the contexts of the worlds, computed once
Contexts == [w \in 1..Len(Worlds) |-> get_homeassistant_devices_info(Worlds[w])]
LookupRaises == [w \in 1..Len(Worlds) |-> lookup_raises(Worlds[w])]

\* what a call gives: what it returned, the cache after it, what it did
Gave(value, cache, log) == [ret |-> [outcome |-> "returns", value |-> value], cache |-> cache, log |-> log]

get_base_system_prompt_cached(cache, now) ==
    LET cached == cache_get_str(cache, now, CACHE_KEY_BASE_PROMPT)
    IN  IF is_hit(cached) THEN Gave(cached.v, cache, <<"get">>)
        ELSE Gave(get_base_system_prompt,
                       cache_set(cache, now, CACHE_KEY_BASE_PROMPT, get_base_system_prompt, TTL_BASE_PROMPT),
                       <<"get", "build", "set">>)

get_user_context_cached(cache, now, user, w) ==
    IF ~has_id(user) THEN Gave("", cache, <<>>)
    ELSE LET cached == cache_get_str(cache, now, user_context_key(user.v))
         IN  IF is_hit(cached) THEN Gave(cached.v, cache, <<"get">>)
             ELSE Gave(Contexts[w],
                            cache_set(cache, now, user_context_key(user.v), Contexts[w], TTL_USER_CONTEXT),
                            <<"get", "build">> \o (IF LookupRaises[w] THEN <<"raise">> ELSE <<>>) \o <<"set">>)

invalidate_user_context_cache(cache, user_id) ==
    [ret |-> [outcome |-> "returns", value |-> ""],
     cache |-> cache_delete(cache, user_context_key(user_id)),
     log |-> <<"delete">>]

\* bounds of the exploration: the calls of one run and the steps of the clock
MaxContextCalls == 3
MaxContextTicks == 3

\* the clock moves by half the time a context lives
ContextTickSeconds == TTL_USER_CONTEXT \div 2

\* the users of the calls, and the ids invalidated
ContextUsers == {None, User(0), User(1), User(2)}
UserIds == {1, 2}

\* the per-query tier holds nothing, or the list of one search
MemoriesEntries ==
    {<<>>, cache_set(<<>>, 0, memories_key(User(2), "o ultimo aviso"), <<>>, TTL_MEMORIES)}

ContextInit ==
    /\ mc_cache \in MemoriesEntries
    /\ mc_now = 0
    /\ mc_rows = <<>>
    /\ mc_user = None
    /\ mc_message = ""
    /\ mc_ret = <<>>
    /\ mc_log = <<>>
    /\ mc_calls = 0
    /\ mc_failed = <<>>
    /\ mc_prior = None
    /\ uc_op = "none"
    /\ uc_user = None
    /\ uc_ret = [outcome |-> "none", value |-> ""]
    /\ uc_log = <<>>
    /\ uc_calls = 0
    /\ uc_written = <<>>
    /\ uc_prior = None
    /\ uc_built = 0
    /\ uc_invalidated = <<>>
    /\ uc_refetch = None
    /\ ExtractOff
    /\ StreamOff
    /\ ChatOff
    /\ DispatchOff
    /\ SearchOff
    /\ RaceOff
    /\ TaskOff
    /\ VoiceOff

\* time passes between two calls
ContextTick ==
    /\ mc_now + ContextTickSeconds <= MaxContextTicks * ContextTickSeconds
    /\ mc_now' = mc_now + ContextTickSeconds
    /\ UNCHANGED <<mc_cache, mc_rows, mc_user, mc_message, mc_ret, mc_log, mc_calls, mc_failed,
                   mc_prior, uc_vars, ex_vars, st_vars, ch_vars, dt_vars, sw_vars,
                   rc_vars, tk_vars, vc_vars>>

\* what a call leaves of the cache-side variables of the memories
ContextFrame == UNCHANGED <<mc_now, mc_rows, mc_user, mc_message, mc_ret, mc_log, mc_calls, mc_failed,
                            mc_prior, ex_vars, st_vars, ch_vars, dt_vars, sw_vars,
                            rc_vars, tk_vars, vc_vars>>

\* get_base_system_prompt_cached()
GetBasePrompt ==
    /\ uc_calls < MaxContextCalls
    /\ uc_calls' = uc_calls + 1
    /\ uc_op' = "base"
    /\ uc_user' = None
    /\ LET r == get_base_system_prompt_cached(mc_cache, mc_now)
       IN  /\ uc_ret' = r.ret
           /\ mc_cache' = r.cache
           /\ uc_log' = r.log
    /\ uc_prior' = None
    /\ uc_built' = 0
    /\ uc_refetch' = None
    /\ UNCHANGED <<uc_written, uc_invalidated>>
    /\ ContextFrame

\* get_user_context_cached(user), with what the lookups of the build would find
\* if they were made
GetUserContext(user, w) ==
    /\ uc_calls < MaxContextCalls
    /\ uc_calls' = uc_calls + 1
    /\ uc_op' = "context"
    /\ uc_user' = user
    /\ LET r == get_user_context_cached(mc_cache, mc_now, user, w)
       IN  /\ uc_ret' = r.ret
           /\ mc_cache' = r.cache
           /\ uc_log' = r.log
           /\ uc_written' = IF Count(r.log, "set") > 0
                            THEN [id \in DOMAIN uc_written \cup {user.v} |->
                                    IF id = user.v THEN [at |-> mc_now, value |-> r.ret.value]
                                    ELSE uc_written[id]]
                            ELSE uc_written
           /\ uc_built' = IF Count(r.log, "build") > 0 THEN w ELSE 0
    /\ uc_prior' = IF has_id(user) /\ user.v \in DOMAIN uc_written
                   THEN JObj([age |-> mc_now - uc_written[user.v].at, value |-> uc_written[user.v].value])
                   ELSE None
    /\ uc_refetch' = IF has_id(user) /\ user.v \in DOMAIN uc_invalidated
                     THEN JObj([stale |-> uc_invalidated[user.v]])
                     ELSE None
    /\ uc_invalidated' = IF has_id(user)
                         THEN [id \in DOMAIN uc_invalidated \ {user.v} |-> uc_invalidated[id]]
                         ELSE uc_invalidated
    /\ ContextFrame

\* invalidate_user_context_cache(user_id)
InvalidateUserContext(user_id) ==
    /\ uc_calls < MaxContextCalls
    /\ uc_calls' = uc_calls + 1
    /\ uc_op' = "invalidate"
    /\ uc_user' = User(user_id)
    /\ LET r == invalidate_user_context_cache(mc_cache, user_id)
       IN  /\ uc_ret' = r.ret
           /\ mc_cache' = r.cache
           /\ uc_log' = r.log
    /\ uc_written' = [id \in DOMAIN uc_written \ {user_id} |-> uc_written[id]]
    /\ uc_prior' = None
    /\ uc_built' = 0
    /\ uc_refetch' = None
    /\ uc_invalidated' = [id \in DOMAIN uc_invalidated \cup {user_id} |->
                            IF id # user_id THEN uc_invalidated[id]
                            ELSE IF user_context_key(user_id) \in DOMAIN mc_cache
                                THEN JStr(mc_cache[user_context_key(user_id)].value)
                                ELSE None]
    /\ ContextFrame

ContextNext ==
    \/ ContextTick
    \/ GetBasePrompt
    \/ \E user \in ContextUsers, w \in 1..Len(Worlds) : GetUserContext(user, w)
    \/ \E user_id \in UserIds : InvalidateUserContext(user_id)

SpecContext == ContextInit /\ [][ContextNext]_vars

\* the last call built the context of a user, and a lookup of the build raised
BuildFailed == uc_op = "context" /\ Count(uc_log, "raise") > 0

\* C21: when a lookup of the build of the context raises, the cached getter
\* raises to its caller and writes nothing to the cache for the key
C21_BuildFailurePropagates ==
    BuildFailed =>
        /\ uc_ret.outcome = "raises"
        /\ Count(uc_log, "set") = 0
        /\ uc_user.v \notin DOMAIN uc_written

\* C21: a call whose device-state request raised returned the static list of
\* devices and left it in the cache for TTL_USER_CONTEXT
C21_StaticListCachedOnFailure ==
    /\ BuildFailed
    /\ uc_ret = [outcome |-> "returns", value |-> StaticDevices]
    /\ user_context_key(uc_user.v) \in DOMAIN mc_cache
    /\ mc_cache[user_context_key(uc_user.v)] = [expires |-> mc_now + TTL_USER_CONTEXT, value |-> StaticDevices]

\* C22: invalidate_user_context_cache(u) removes the entry of u and leaves
\* every other entry of the cache (other users, the static tier, the per-query
\* tier) as it was; the next get_user_context_cached call for u invokes the
\* loader once and returns and stores what the loader built
C22_InvalidationForcesRebuild ==
    [][/\ (uc_calls' = uc_calls + 1 /\ uc_op' = "invalidate")
            => /\ DOMAIN mc_cache' = DOMAIN mc_cache \ {user_context_key(uc_user'.v)}
               /\ \A key \in DOMAIN mc_cache' : mc_cache'[key] = mc_cache[key]
       /\ (uc_calls' = uc_calls + 1 /\ uc_op' = "context" /\ uc_refetch'.k = "obj")
            => /\ Count(uc_log', "build") = 1
               /\ uc_built' # 0
               /\ uc_ret' = [outcome |-> "returns", value |-> Contexts[uc_built']]
               /\ mc_cache'[user_context_key(uc_user'.v)].value = Contexts[uc_built']]_vars

\* C22: the first fetch of a user after an invalidation that removed a context
\* from the cache returned another context than the removed one, while the
\* entry of the per-query tier sits in the cache
C22_RebuiltAfterInvalidation ==
    /\ uc_op = "context"
    /\ uc_refetch.k = "obj"
    /\ uc_refetch.v.stale.k = "str"
    /\ uc_refetch.v.stale.v # ""
    /\ uc_ret.value # ""
    /\ uc_ret.value # uc_refetch.v.stale.v
    /\ memories_key(User(2), "o ultimo aviso") \in DOMAIN mc_cache

\* the last call is get_user_context_cached for a user with an id
ContextCall == uc_op = "context" /\ has_id(uc_user)

\* the cache held, when the last call began, a non-empty context of its user
\* written less than TTL_USER_CONTEXT before
LiveContext ==
    /\ uc_prior.k = "obj"
    /\ uc_prior.v.value # ""
    /\ uc_prior.v.age < TTL_USER_CONTEXT

\* C29: a get_user_context_cached call for a user invokes the loader exactly
\* when the cache holds no unexpired non-empty entry of the user; a hit returns
\* the entry, and a build is written to the cache even when it is empty
C29_LoaderIffNoLiveNonEmptyEntry ==
    ContextCall =>
        /\ Count(uc_log, "build") = 0 <=> LiveContext
        /\ Count(uc_log, "build") <= 1
        /\ LiveContext => uc_ret = [outcome |-> "returns", value |-> uc_prior.v.value]
        /\ ~LiveContext
            => /\ uc_built # 0
               /\ uc_ret = [outcome |-> "returns", value |-> Contexts[uc_built]]
               /\ user_context_key(uc_user.v) \in DOMAIN mc_cache
               /\ mc_cache[user_context_key(uc_user.v)].value = Contexts[uc_built]

\* C29: a call made half a TTL after an empty context was written for its user
\* invoked the loader again
C29_EmptyContextRebuilt ==
    /\ ContextCall
    /\ uc_prior.k = "obj"
    /\ uc_prior.v.value = ""
    /\ uc_prior.v.age = ContextTickSeconds
    /\ Count(uc_log, "build") = 1

\* ---------------------------------------------------------------------------
\* One search_web call with up to MaxBackoffRetries attempts
\* ---------------------------------------------------------------------------

MaxBackoffRetries == 4

\* the one call of the run
OneCall(retries) ==
    /\ sw_calls = 0
    /\ Call("weather lisbon", 2, retries)

BackoffNext ==
    \/ \E retries \in 0..MaxBackoffRetries : OneCall(retries)
    \/ \E response \in Responses : Attempt(response)
    \/ \E outcome \in FallbackOutcomes : Fallback(outcome)

SpecBackoff == SearchInit /\ [][BackoffNext]_vars

\* C24: a search_web call with retries = r attempts the primary provider at
\* most r times; after the failed attempt of index k that is not the last it
\* sleeps 2^k seconds and goes on to attempt k + 1; after the last attempt and
\* after a successful attempt, and in the fallback, no time is slept
C24_ExponentialBackoff ==
    [][/\ Count(sw_trace', "primary") <= sw_retries'
       /\ (sw_pc = "attempt" /\ Len(sw_outcomes') = Len(sw_outcomes) + 1)
            => /\ sw_attempt < sw_retries
               /\ Len(sw_outcomes) = sw_attempt
               /\ IF sw_outcomes'[Len(sw_outcomes')] # "results" /\ sw_attempt # sw_retries - 1
                  THEN /\ sw_now' = sw_now + 2 ^ sw_attempt
                       /\ sw_attempt' = sw_attempt + 1
                       /\ sw_pc' = "attempt"
                  ELSE /\ sw_now' = sw_now
                       /\ sw_pc' \in {"returned", "fallback"}
       /\ sw_pc = "fallback" => sw_now' = sw_now]_vars

\* C24: a call with four attempts that all failed returned after sleeping 1, 2
\* and 4 seconds
C24_SleptOneTwoFour ==
    /\ sw_pc = "returned"
    /\ sw_retries = 4
    /\ Len(sw_outcomes) = 4
    /\ Count(sw_trace, "primary") = 4
    /\ Count(sw_trace, "sleep") = 3
    /\ sw_now = 1 + 2 + 4

\* the ranking of the provider that gave the results of the call
Ranked == IF sw_source = "primary" THEN Rankings[sw_ranked.body] ELSE sw_ranked.items

\* C26: the list a search_web(q, n) call returns has at most n entries, and the
\* entries are built, one for one and in order, from the first items of the
\* ranking of the provider that gave them
C26_PrefixOfProviderRanking ==
    Returned =>
        /\ Len(sw_ret) <= sw_max_results
        /\ sw_source = "primary"
            => /\ Len(sw_ret) <= Len(Ranked)
               /\ \A i \in 1..Len(sw_ret) : sw_ret[i] = primary_result(Ranked[i])
        /\ sw_source = "fallback"
            => /\ Len(sw_ret) <= Len(Ranked)
               /\ \A i \in 1..Len(sw_ret) : sw_ret[i] = fallback_result(Ranked[i])
        /\ sw_source = "none" => sw_ret = <<>>

\* C26: a call with max_results = 1 returned the first of the three results the
\* primary provider ranked
C26_FirstOfThree ==
    /\ Returned
    /\ sw_source = "primary"
    /\ sw_max_results = 1
    /\ Len(Ranked) = 3
    /\ sw_ret = <<primary_result(Ranked[1])>>

\* ---------------------------------------------------------------------------
\* Two threads in search_web for the same key: the statements of
\* _get_from_cache and _set_cache on the shared _SEARCH_CACHE
\* ---------------------------------------------------------------------------

Threads == {1, 2}

\* bounds of the exploration: the calls of one thread and the steps of the clock
MaxRaceCalls == 2
MaxRaceTicks == 3

RaceKey == cache_key("weather lisbon", 2)

\* the lists the primary provider gives
RaceResults == {<<>>, <<Result(JStr("a"), JStr(""), JStr(""), JStr(""))>>}

\* _SEARCH_CACHE.pop(key, None)
cache_pop(cache, key) == [k \in DOMAIN cache \ {key} |-> cache[k]]

RaceInit ==
    /\ rc_cache = <<>>
    /\ rc_now = 0
    /\ rc_pc = [t \in Threads |-> "idle"]
    /\ rc_entry = [t \in Threads |-> None]
    /\ rc_ret = [t \in Threads |-> <<>>]
    /\ rc_calls = [t \in Threads |-> 0]
    /\ rc_evicted = None
    /\ ExtractOff
    /\ StreamOff
    /\ ChatOff
    /\ DispatchOff
    /\ SearchOff
    /\ MemoriesOff
    /\ ContextOff
    /\ TaskOff
    /\ VoiceOff

\* time passes, whatever the threads are doing
RaceTick ==
    /\ rc_now + TickSeconds <= MaxRaceTicks * TickSeconds
    /\ rc_now' = rc_now + TickSeconds
    /\ UNCHANGED <<rc_cache, rc_pc, rc_entry, rc_ret, rc_calls, rc_evicted, non_rc_vars>>

\* a thread enters search_web(query, max_results)
RaceCall(t) ==
    /\ rc_pc[t] \in {"idle", "returned"}
    /\ rc_calls[t] < MaxRaceCalls
    /\ rc_calls' = [rc_calls EXCEPT ![t] = @ + 1]
    /\ rc_pc' = [rc_pc EXCEPT ![t] = "read"]
    /\ rc_entry' = [rc_entry EXCEPT ![t] = None]
    /\ rc_ret' = [rc_ret EXCEPT ![t] = <<>>]
    /\ UNCHANGED <<rc_cache, rc_now, rc_evicted, non_rc_vars>>

\* entry = _SEARCH_CACHE.get(key); if not entry: return None
RaceRead(t) ==
    /\ rc_pc[t] = "read"
    /\ IF RaceKey \in DOMAIN rc_cache
       THEN /\ rc_entry' = [rc_entry EXCEPT ![t] = JObj(rc_cache[RaceKey])]
            /\ rc_pc' = [rc_pc EXCEPT ![t] = "check"]
       ELSE /\ rc_entry' = [rc_entry EXCEPT ![t] = None]
            /\ rc_pc' = [rc_pc EXCEPT ![t] = "fetch"]
    /\ UNCHANGED <<rc_cache, rc_now, rc_ret, rc_calls, rc_evicted, non_rc_vars>>

\* ts, results = entry; if time.time() - ts > CACHE_TTL_SECONDS: ...; return results
RaceCheck(t) ==
    /\ rc_pc[t] = "check"
    /\ IF expired(rc_now, rc_entry[t].v.ts)
       THEN /\ rc_pc' = [rc_pc EXCEPT ![t] = "pop"]
            /\ UNCHANGED rc_ret
       ELSE /\ rc_pc' = [rc_pc EXCEPT ![t] = "returned"]
            /\ rc_ret' = [rc_ret EXCEPT ![t] = rc_entry[t].v.results]
    /\ UNCHANGED <<rc_cache, rc_now, rc_entry, rc_calls, rc_evicted, non_rc_vars>>

\* _SEARCH_CACHE.pop(key, None); return None
RacePop(t) ==
    /\ rc_pc[t] = "pop"
    /\ rc_cache' = cache_pop(rc_cache, RaceKey)
    /\ rc_evicted' = IF RaceKey \in DOMAIN rc_cache
                     THEN JObj([age |-> rc_now - rc_cache[RaceKey].ts, by |-> t,
                                read |-> rc_entry[t].v.ts])
                     ELSE rc_evicted
    /\ rc_pc' = [rc_pc EXCEPT ![t] = "fetch"]
    /\ UNCHANGED <<rc_now, rc_entry, rc_ret, rc_calls, non_rc_vars>>

\* the retry loop of the thread ends with results of the primary provider:
\* _set_cache(query, max_results, results); return results
RaceFetched(t, results) ==
    /\ rc_pc[t] = "fetch"
    /\ rc_cache' = _set_cache(rc_cache, rc_now, "weather lisbon", 2, results)
    /\ rc_ret' = [rc_ret EXCEPT ![t] = results]
    /\ rc_pc' = [rc_pc EXCEPT ![t] = "returned"]
    /\ UNCHANGED <<rc_now, rc_entry, rc_calls, rc_evicted, non_rc_vars>>

\* the retry loop of the thread ends without results of the primary provider:
\* nothing is written
RaceFetchFailed(t) ==
    /\ rc_pc[t] = "fetch"
    /\ rc_ret' = [rc_ret EXCEPT ![t] = <<>>]
    /\ rc_pc' = [rc_pc EXCEPT ![t] = "returned"]
    /\ UNCHANGED <<rc_cache, rc_now, rc_entry, rc_calls, rc_evicted, non_rc_vars>>

RaceNext ==
    \/ RaceTick
    \/ \E t \in Threads :
        \/ RaceCall(t)
        \/ RaceRead(t)
        \/ RaceCheck(t)
        \/ RacePop(t)
        \/ \E results \in RaceResults : RaceFetched(t, results)
        \/ RaceFetchFailed(t)

SpecSearchRace == RaceInit /\ [][RaceNext]_vars

\* C28: the pop of the expiry check of a thread removes only an entry whose own
\* age exceeds the TTL
C28_OnlyExpiredEntriesEvicted ==
    rc_evicted.k = "obj" => expired(rc_now, rc_now - rc_evicted.v.age)

\* C28: the pop of a thread that had read an expired entry removed the entry
\* another thread had written at that very moment
C28_FreshEntryEvicted ==
    /\ rc_evicted.k = "obj"
    /\ rc_evicted.v.age = 0
    /\ rc_evicted.v.read < rc_now - CACHE_TTL_SECONDS
    /\ RaceKey \notin DOMAIN rc_cache
    /\ \E t \in Threads \ {rc_evicted.v.by} : rc_pc[t] = "returned" /\ rc_calls[t] = MaxRaceCalls

\* ---------------------------------------------------------------------------
\* The streaming session run to its end: the server keeps pulling event_stream
\* until the generator is exhausted, so a step that can be taken is taken
\* ---------------------------------------------------------------------------

\* the steps of the session other than the receipt of the line with the done
\* flag; one of them is possible in every state in which the session has not
\* ended, so a session that is fair to them runs to its end
Proceeds ==
    \/ BuildMessagesFails
    \/ RequestFails
    \/ RequestAccepted
    \/ \E chunk \in Chunks : RecvChunk(chunk)
    \/ \E kind \in IgnoredLines : RecvIgnored(kind)
    \/ WriteDone
    \/ WriteAction
    \/ StreamReturns
    \/ StreamEnds
    \/ StreamFails
    \/ SaveConversation
    \/ SaveFails

FairSpec == Init /\ [][Next]_vars /\ WF_vars(Proceeds)

\* the done and error events written so far
TerminalEvents == SelectSeq(out, Terminal)

\* C27: a session whose request reached the model ends with exactly one
\* terminal event, done or error, written to the client, however the stream of
\* the model ended
C27_OneTerminalEventInTheEnd ==
    <>[](st_pc = "closed" /\ (model_calls = 1 => Len(TerminalEvents) = 1))

\* C27: the response of the model ended after a chunk without a line with the
\* done flag, and the session closed with no terminal event written
C27_EndedWithoutTerminalEvent ==
    /\ st_pc = "closed"
    /\ model_calls = 1
    /\ upstream # <<>>
    /\ upstream[Len(upstream)].kind = "end"
    /\ OfType(out, "chunk") # <<>>
    /\ TerminalEvents = <<>>

\* ---------------------------------------------------------------------------
\* The streaming session with a client that may go away: the server closes the
\* generator event_stream where it is suspended, at the yield of its last event
\* ---------------------------------------------------------------------------

\* event_stream is suspended at a yield with more to run
Suspended ==
    \/ st_pc = "loop" /\ upstream # <<>> /\ upstream[Len(upstream)].kind = "chunk"
    \/ st_pc \in {"final_text_sent", "done_sent", "action_sent"}

\* the client goes away: GeneratorExit is raised at the yield; it is no
\* Exception, so no except clause of event_stream or stream_ollama_chat runs,
\* and neither does anything after the yield
ClientDisconnects ==
    /\ Suspended
    /\ st_pc' = "abandoned"
    /\ UNCHANGED <<upstream, accumulated_text, pending_action, full_text, raw_text,
                   action_detected, out, model_calls, conv_mode, saved, st_fault, non_st_vars>>

DisconnectNext ==
    \/ Next
    \/ ClientDisconnects

SpecDisconnect == Init /\ [][DisconnectNext]_vars

\* the client went away while chunks were being streamed
DisconnectedMidStream ==
    /\ st_pc = "abandoned"
    /\ upstream # <<>>
    /\ upstream[Len(upstream)].kind = "chunk"

\* C23: when the client goes away while chunks are streamed, the session writes
\* no error event and records no failure, and it still extracts the directive
\* from the text received and stores the turn
C23_DisconnectStillFinishesTurn ==
    DisconnectedMidStream =>
        /\ OfType(out, "error") = <<>>
        /\ st_fault = "none"
        /\ raw_text = accumulated_text
        /\ full_text = strip_action_line(accumulated_text)
        /\ conv_mode # "missing" => saved.k = "str" /\ saved.v = full_text

\* C23: the client went away after the chunk that carried a directive: nothing
\* was extracted and nothing was stored
C23_TurnAbandoned ==
    /\ DisconnectedMidStream
    /\ conv_mode = "existing"
    /\ Len(OfType(out, "chunk")) = 2
    /\ parse_action(accumulated_text).k = "obj"
    /\ raw_text = ""
    /\ pending_action.k = "none"
    /\ saved.k = "none"

(***************************************************************************)
(* The asynchronous search task: perform_web_search_and_respond            *)
(***************************************************************************)

\* the lines of the response the task keeps: those that do not begin, after
\* stripping, with the text ACTION: as written
task_clean_lines(lines) ==
    SelectSeq(lines, LAMBDA line : ~startswith(strip(line), "ACTION:"))

\* the clean response of the task: the response as it came when parse_action
\* found no action, otherwise the response without its ACTION: lines
task_clean_response(response_text, action) ==
    IF is_true(action)
    THEN strip(join_lines(task_clean_lines(split_lines(strip(response_text)))))
    ELSE response_text

\* what the task does with the action: nothing, a dispatch, or the
\* AttributeError of action.get on a value that is not a dictionary
task_dispatch(action, storage, remote) ==
    IF ~is_true(action) THEN [outcome |-> "none", message |-> ""]
    ELSE IF ~is_dict(action) THEN Raised("AttributeError: no attribute get")
    ELSE dispatch_tool(dict_get(action, "tool", None), dict_get(action, "args", JObj(<<>>)),
                       storage, remote)

\* a message handed to publish_to_user
Published(type, status, message, search_results) ==
    [type |-> type, status |-> status, message |-> message, search_results |-> search_results]

SearchingMessage == "A pesquisar na internet"
NoResultsMessage == "Desculpa, nao encontrei resultados na pesquisa."
ErrorMessage == "Desculpa, ocorreu um erro ao pesquisar."

\* the outer except: the error status is published and the exception goes on
task_raises(published) == Append(published, Published("search_status", "error", ErrorMessage, <<>>))

\* what search_web may return to the task (max_results = 5)
TaskSearchResults == {
    <<>>,
    <<Result(JStr("a"), JStr("u"), JStr("s"), JStr("e"))>>,
    <<Result(JStr("a"), JStr(""), JStr(""), JStr("")), Result(JStr("b"), JStr(""), JStr(""), JStr("")),
      Result(JStr("c"), JStr(""), JStr(""), JStr("")), Result(JStr("d"), JStr(""), JStr(""), JStr(""))>> }

\* what the model may answer to the search context
TaskResponses == {
    "",
    "Ganhou o Porto.",
    "Ganhou o Porto.\n" \o TerminalLine,
    "Ganhou o Porto. " \o TerminalLine,
    "Anotado.\nACTION: {\"tool\": \"save_note\", \"args\": {\"text\": \"x\"}}\nAte logo.",
    "Anotado.\naction: {\"tool\": \"save_note\", \"args\": {\"text\": \"x\"}}",
    "Anotado.\nAção: {\"tool\": \"save_note\", \"args\": {\"text\": \"x\"}}",
    "Anotado.\nACAO: {\"tool\": \"save_note\", \"args\": {\"text\": \"x\"}}",
    "Anotado.\nACTION: save_note",
    "Anotado.\nACTION: {}",
    "Anotado.\nACTION: [\"x\"]",
    "Vou ver.\n  " \o StatesLine,
    "ACTION: {\"tool\": \"terminal_command\", \"args\": [\"ls\"]}",
    "Vou pesquisar." \o WebSearchLine }

TaskInit ==
    /\ tk_pc = "start"
    /\ tk_search_results = <<>>
    /\ tk_response_text = ""
    /\ tk_action = None
    /\ tk_clean_response = ""
    /\ tk_action_result = None
    /\ tk_published = <<>>
    /\ tk_ret = None
    /\ ExtractOff
    /\ StreamOff
    /\ ChatOff
    /\ DispatchOff
    /\ SearchOff
    /\ MemoriesOff
    /\ ContextOff
    /\ RaceOff
    /\ VoiceOff

\* User.objects.get and the notification that the search started
TaskStart(user_found) ==
    /\ tk_pc = "start"
    /\ IF user_found
       THEN /\ tk_published' = Append(tk_published,
                                      Published("search_status", "searching", SearchingMessage, <<>>))
            /\ tk_pc' = "search"
            /\ tk_ret' = tk_ret
       ELSE /\ tk_ret' = JObj(("success" :> JLit("false")) @@ ("error" :> JStr("User not found")))
            /\ tk_pc' = "returned"
            /\ tk_published' = tk_published
    /\ UNCHANGED <<tk_search_results, tk_response_text, tk_action, tk_clean_response,
                   tk_action_result, non_tk_vars>>

\* search_web(search_query, max_results=5, retries=3) and the return when it found nothing
TaskSearch(search_results) ==
    /\ tk_pc = "search"
    /\ tk_search_results' = search_results
    /\ IF search_results = <<>>
       THEN /\ tk_published' = Append(tk_published,
                                      Published("search_status", "no_results", NoResultsMessage, <<>>))
            /\ tk_ret' = JObj(("success" :> JLit("false"))
                              @@ ("message" :> JStr("No search results found"))
                              @@ ("error" :> JStr("Rate limited or no results")))
            /\ tk_pc' = "returned"
       ELSE /\ tk_pc' = "answer"
            /\ UNCHANGED <<tk_published, tk_ret>>
    /\ UNCHANGED <<tk_response_text, tk_action, tk_clean_response, tk_action_result, non_tk_vars>>

\* call_ollama answers: the action is parsed and the response cleaned
TaskAnswer(response_text) ==
    /\ tk_pc = "answer"
    /\ tk_response_text' = response_text
    /\ tk_action' = parse_action(response_text)
    /\ tk_clean_response' = task_clean_response(response_text, tk_action')
    /\ tk_pc' = IF is_true(tk_action') THEN "dispatch" ELSE "publish"
    /\ UNCHANGED <<tk_search_results, tk_action_result, tk_published, tk_ret, non_tk_vars>>

\* call_ollama raises
TaskAnswerFails ==
    /\ tk_pc = "answer"
    /\ tk_published' = task_raises(tk_published)
    /\ tk_pc' = "raised"
    /\ UNCHANGED <<tk_search_results, tk_response_text, tk_action, tk_clean_response,
                   tk_action_result, tk_ret, non_tk_vars>>

\* the action is dispatched; an exception of action.get or of the tool leaves the task
TaskDispatch(storage, remote) ==
    /\ tk_pc = "dispatch"
    /\ LET result == task_dispatch(tk_action, storage, remote)
       IN  IF result.outcome = "raised"
           THEN /\ tk_published' = task_raises(tk_published)
                /\ tk_pc' = "raised"
                /\ tk_action_result' = tk_action_result
           ELSE /\ tk_action_result' = JObj(("success" :> JLit(IF result.outcome = "success"
                                                                 THEN "true" ELSE "false"))
                                            @@ ("message" :> JStr(result.message)))
                /\ tk_pc' = "publish"
                /\ tk_published' = tk_published
    /\ UNCHANGED <<tk_search_results, tk_response_text, tk_action, tk_clean_response,
                   tk_ret, non_tk_vars>>

\* the final response is published, with the first three results, and returned
TaskPublish ==
    /\ tk_pc = "publish"
    /\ tk_published' = Append(tk_published,
                              Published("search_response", "completed", tk_clean_response,
                                        head(tk_search_results, 3)))
    /\ tk_ret' = JObj(("success" :> JLit("true")) @@ ("response" :> JStr(tk_clean_response)))
    /\ tk_pc' = "returned"
    /\ UNCHANGED <<tk_search_results, tk_response_text, tk_action, tk_clean_response,
                   tk_action_result, non_tk_vars>>

TaskNext ==
    \/ \E user_found \in BOOLEAN : TaskStart(user_found)
    \/ \E search_results \in TaskSearchResults : TaskSearch(search_results)
    \/ \E response_text \in TaskResponses : TaskAnswer(response_text)
    \/ TaskAnswerFails
    \/ \E storage \in {"ok", "error"}, remote \in {"ok", "error"} : TaskDispatch(storage, remote)
    \/ TaskPublish

SpecSearchTask == TaskInit /\ [][TaskNext]_vars

\* the reply the task gave: published with status completed and returned
TaskReplied == tk_pc = "returned" /\ dict_get(tk_ret, "success", None) = JLit("true")

\* C25: the reply produced after the second model pass of the search task holds
\* no directive marker text, whether or not the trailing directive of the
\* response parses and in whatever letter case or marker variant it is written
C25_ReplyHasNoMarkerText == TaskReplied => ~HasMarker(tk_clean_response)

\* C25: the task replied with the marker text of a directive that did not
\* parse, or that was written in another case or variant, still in the reply
C25_MarkerTextInReply ==
    /\ TaskReplied
    /\ HasMarker(tk_response_text)
    /\ HasMarker(tk_clean_response)
    /\ tk_published[Len(tk_published)].message = tk_clean_response

(***************************************************************************)
(* The voice connection: VoiceConsumer                                     *)
(***************************************************************************)

\* detect_silence(self.audio_chunks, threshold=5)
SilenceThreshold == 5
detect_silence(audio_chunks, threshold) == Len(audio_chunks) >= threshold

MIN_AUDIO_SIZE == 50 * 1024

\* len(b''.join(self.audio_chunks))
RECURSIVE combined_size(_)
combined_size(audio_chunks) ==
    IF audio_chunks = <<>> THEN 0 ELSE Head(audio_chunks) + combined_size(Tail(audio_chunks))

\* handle_audio_chunk leaves the chunk aside whatever the processing flag says
skip_chunk_unless_inactive(is_active, processing) == ~is_active

\* handle_audio_chunk leaves the chunk aside: the conversation is not active,
\* or the previous audio is still being processed
skip_chunk(is_active, processing) == ~is_active \/ processing

\* the guard of process_accumulated_audio
may_process(processing, audio_chunks) == ~(processing \/ audio_chunks = <<>>)

\* a call of process_accumulated_audio is over
pipe_exit(pipes, p) == [q \in DOMAIN pipes \ {p} |-> pipes[q]]

MaxChunks == 8
MaxPipelines == 2
ChunkSizes == {1024, 26 * 1024}
Transcripts == {"", "ola"}
\* what stream_ollama_chat gives: a done event with the reply, an error event,
\* content without a done event, or nothing
StreamOutcomes == {"done", "error", "content", "nothing"}

VoiceInit ==
    /\ vc_is_active = FALSE
    /\ vc_processing = FALSE
    /\ vc_audio_chunks = <<>>
    /\ vc_pipes = <<>>
    /\ vc_started = 0
    /\ vc_received = 0
    /\ vc_sent = "connected"
    /\ vc_last = "none"
    /\ vc_dropped = FALSE
    /\ vc_ended = "none"
    /\ ExtractOff
    /\ StreamOff
    /\ ChatOff
    /\ DispatchOff
    /\ SearchOff
    /\ MemoriesOff
    /\ ContextOff
    /\ RaceOff
    /\ TaskOff

\* handle_start; when the conversation cannot be created, receive reports the error
HandleStart(created) ==
    /\ IF created
       THEN /\ vc_is_active' = TRUE
            /\ vc_audio_chunks' = <<>>
            /\ vc_sent' = "listening"
       ELSE /\ vc_sent' = "error"
            /\ UNCHANGED <<vc_is_active, vc_audio_chunks>>
    /\ UNCHANGED <<vc_processing, vc_pipes, vc_started, vc_received, vc_last, vc_dropped,
                   vc_ended, non_vc_vars>>

\* handle_stop
HandleStop ==
    /\ vc_is_active' = FALSE
    /\ vc_audio_chunks' = <<>>
    /\ vc_sent' = "stopped"
    /\ UNCHANGED <<vc_processing, vc_pipes, vc_started, vc_received, vc_last, vc_dropped,
                   vc_ended, non_vc_vars>>

\* handle_audio_chunk, up to the first await of process_accumulated_audio
HandleAudioChunk(audio_data) ==
    /\ vc_received < MaxChunks
    /\ vc_received' = vc_received + 1
    /\ IF skip_chunk(vc_is_active, vc_processing) THEN
            /\ vc_last' = IF ~vc_is_active THEN "inactive" ELSE "dropped"
            /\ vc_dropped' = (vc_dropped \/ vc_is_active)
            /\ UNCHANGED <<vc_audio_chunks, vc_processing, vc_pipes, vc_started, vc_sent, vc_ended>>
       ELSE LET chunks == Append(vc_audio_chunks, audio_data)
            IN  IF ~(detect_silence(chunks, SilenceThreshold) /\ may_process(vc_processing, chunks)) THEN
                     /\ vc_audio_chunks' = chunks
                     /\ vc_last' = "accepted"
                     /\ UNCHANGED <<vc_processing, vc_pipes, vc_started, vc_sent, vc_dropped, vc_ended>>
                ELSE /\ vc_started < MaxPipelines
                     /\ vc_started' = vc_started + 1
                     /\ vc_audio_chunks' = <<>>
                     /\ vc_last' = "processed"
                     /\ vc_dropped' = vc_dropped
                     /\ IF combined_size(chunks) < MIN_AUDIO_SIZE
                        THEN /\ vc_processing' = FALSE
                             /\ vc_ended' = "too small"
                             /\ UNCHANGED <<vc_pipes, vc_sent>>
                        ELSE /\ vc_processing' = TRUE
                             /\ vc_pipes' = (vc_started + 1 :> "thinking") @@ vc_pipes
                             /\ UNCHANGED <<vc_sent, vc_ended>>
    /\ UNCHANGED <<vc_is_active, non_vc_vars>>

\* the pipeline leaves process_accumulated_audio: the finally clause
PipeExit(p, path, sent) ==
    /\ vc_processing' = FALSE
    /\ vc_pipes' = pipe_exit(vc_pipes, p)
    /\ vc_ended' = path
    /\ vc_sent' = sent

\* the status thinking is sent
PipeThinking(p) ==
    /\ p \in DOMAIN vc_pipes /\ vc_pipes[p] = "thinking"
    /\ vc_sent' = "thinking"
    /\ vc_pipes' = [vc_pipes EXCEPT ![p] = "transcribe"]
    /\ UNCHANGED <<vc_is_active, vc_processing, vc_audio_chunks, vc_started, vc_received,
                   vc_last, vc_dropped, vc_ended, non_vc_vars>>

\* transcribe_audio answers
PipeTranscribe(p, transcript) ==
    /\ p \in DOMAIN vc_pipes /\ vc_pipes[p] = "transcribe"
    /\ IF transcript = ""
       THEN PipeExit(p, "empty transcript", "error")
       ELSE /\ vc_sent' = "final_transcript"
            /\ vc_pipes' = [vc_pipes EXCEPT ![p] = "stream"]
            /\ UNCHANGED <<vc_processing, vc_ended>>
    /\ UNCHANGED <<vc_is_active, vc_audio_chunks, vc_started, vc_received, vc_last,
                   vc_dropped, non_vc_vars>>

\* the messages are built and the model's stream is read to its end
PipeStream(p, outcome) ==
    /\ p \in DOMAIN vc_pipes /\ vc_pipes[p] = "stream"
    /\ IF outcome = "error"
       THEN PipeExit(p, "stream error", "error")
       ELSE /\ vc_sent' = "speaking"
            /\ vc_pipes' = [vc_pipes EXCEPT ![p] = "speak"]
            /\ UNCHANGED <<vc_processing, vc_ended>>
    /\ UNCHANGED <<vc_is_active, vc_audio_chunks, vc_started, vc_received, vc_last,
                   vc_dropped, non_vc_vars>>

\* generate_speech answers; the audio, if any, is sent
PipeSpeak(p, audio) ==
    /\ p \in DOMAIN vc_pipes /\ vc_pipes[p] = "speak"
    /\ vc_sent' = IF audio THEN "tts_audio_chunk" ELSE vc_sent
    /\ vc_pipes' = [vc_pipes EXCEPT ![p] = "save"]
    /\ UNCHANGED <<vc_is_active, vc_processing, vc_audio_chunks, vc_started, vc_received,
                   vc_last, vc_dropped, vc_ended, non_vc_vars>>

\* the exchange is saved and the connection listens again
PipeSave(p) ==
    /\ p \in DOMAIN vc_pipes /\ vc_pipes[p] = "save"
    /\ PipeExit(p, "completed", "listening")
    /\ UNCHANGED <<vc_is_active, vc_audio_chunks, vc_started, vc_received, vc_last,
                   vc_dropped, non_vc_vars>>

\* a step of the pipeline raises: the error is sent
PipeRaises(p) ==
    /\ p \in DOMAIN vc_pipes
    /\ PipeExit(p, "exception", "error")
    /\ UNCHANGED <<vc_is_active, vc_audio_chunks, vc_started, vc_received, vc_last,
                   vc_dropped, non_vc_vars>>

VoiceNext ==
    \/ \E created \in BOOLEAN : HandleStart(created)
    \/ HandleStop
    \/ \E audio_data \in ChunkSizes : HandleAudioChunk(audio_data)
    \/ \E p \in 1..MaxPipelines : PipeThinking(p)
    \/ \E p \in 1..MaxPipelines, transcript \in Transcripts : PipeTranscribe(p, transcript)
    \/ \E p \in 1..MaxPipelines, outcome \in StreamOutcomes : PipeStream(p, outcome)
    \/ \E p \in 1..MaxPipelines, audio \in BOOLEAN : PipeSpeak(p, audio)
    \/ \E p \in 1..MaxPipelines : PipeSave(p)
    \/ \E p \in 1..MaxPipelines : PipeRaises(p)

SpecVoice == VoiceInit /\ [][VoiceNext]_vars

\* the flag is true exactly while a pipeline runs, and no two pipelines run
OnePipelineWhileProcessing ==
    /\ vc_processing <=> DOMAIN vc_pipes # {}
    /\ Cardinality(DOMAIN vc_pipes) <= 1

\* a chunk that arrives while the flag is true is dropped and starts nothing;
\* one that arrives while it is false in an active conversation is accepted
ChunkRule ==
    vc_received' = vc_received + 1 =>
        /\ vc_processing => (vc_audio_chunks' = vc_audio_chunks /\ vc_pipes' = vc_pipes
                             /\ vc_started' = vc_started)
        /\ (~vc_processing /\ vc_is_active) =>
              \/ \E audio_data \in ChunkSizes : vc_audio_chunks' = Append(vc_audio_chunks, audio_data)
              \/ vc_started' = vc_started + 1

\* every exit of a pipeline leaves the flag false
ExitRule == DOMAIN vc_pipes' # DOMAIN vc_pipes /\ DOMAIN vc_pipes' = {} => ~vc_processing'

\* C30: the processing flag is true only while process_accumulated_audio runs and
\* every exit resets it, at most one pipeline runs per connection, chunks that
\* arrive while it is true are dropped without being queued, and after a
\* pipeline ends chunks are accepted again
C30_ProcessingFlagGuardsOnePipeline ==
    [](OnePipelineWhileProcessing) /\ [][ChunkRule /\ ExitRule]_vars

\* C30: a chunk was dropped while a pipeline ran, the pipeline left on a model
\* stream error, and the chunk that came after it was accepted
C30_AcceptedAgainAfterStreamError ==
    /\ vc_dropped
    /\ vc_ended = "stream error"
    /\ vc_last = "accepted"
    /\ ~vc_processing
    /\ Len(vc_audio_chunks) = 1

====
